---- MODULE Spec2Model ----
(***************************************************************************)
(* OCR-View: a model of the image re-encoding controller                   *)
(* (preprocessForOCR), the text normalizer (processText), the confusion    *)
(* expander (generateVariants) and the plate reconstructor                 *)
(* (findKAVehicleInTokens) of src/script.js (the copy that starts at line  *)
(* 498; src/unnamed/part_002 holds the same reconstruction code and an     *)
(* earlier preprocessForOCR, modelled beside the one of script.js).        *)
(*                                                                         *)
(* A JavaScript string is modelled as a sequence of one-character strings, *)
(* so "KA51" is <<"K","A","5","1">>.  Token positions are the 0-based      *)
(* positions of the JavaScript arrays.                                     *)
(***************************************************************************)
EXTENDS Integers, Sequences, FiniteSets, TLC

VARIABLES
    tokens,     \* findKAVehicleInTokens: the token array it is called with
    found,      \* findKAVehicleInTokens: its return value
    platePc,    \* plate run: "input" before the call, "done" after it
    rawText,    \* processText: its argument
    result,     \* processText: its return value
    textPc,     \* text run: "input" before the call, "done" after it
    gvToken,    \* generateVariants: its token argument
    gvLimit,    \* generateVariants: its limit argument
    gvResult,   \* generateVariants: the array it returns
    gvPc,       \* variants run: "input" before the call, "done" after it
    origW,      \* preprocessForOCR: img.width
    origH,      \* preprocessForOCR: img.height
    scale,      \* preprocessForOCR: scale, an exact fraction [n, d]
    targetW,    \* preprocessForOCR: targetW
    targetH,    \* preprocessForOCR: targetH
    quality,    \* preprocessForOCR: quality, in hundredths
    blob,       \* preprocessForOCR: blob, the last encoded candidate
    attempt,    \* preprocessForOCR: the loop variable
    attempts,   \* preprocessForOCR: attempts
    bestBlob,   \* preprocessForOCR: bestBlob
    bestScore,  \* preprocessForOCR: bestScore, in ScoreUnits
    attemptLog, \* the "Attempt n: WxH, q, size, score" log entries, in order
    finalBlob,  \* preprocessForOCR: the blob it returns
    prePc,      \* "start", "loop" (before an attempt), "exit" (after the loop), "done"
    preCopy,    \* the copy of preprocessForOCR that runs: "script.js" or "part_002"
    currentFile,  \* let currentFile: the blob used by OCR, or NoFile for null
    originalBlob, \* let originalBlob: the original image blob, or NoFile for null
    hfi,        \* the calls of handleFileInput: position, file, how preprocessing ended
    orch,       \* the runs of orchestrateOCRandExtraction the calls schedule
    uploads,    \* the blobs posted to OCR.Space so far
    status,     \* the last setStatus(message, isError)
    output,     \* output.textContent
    canvasW,    \* renderToCanvas: width
    canvasH,    \* renderToCanvas: height
    optsSharpen, \* renderToCanvas: opts.sharpen
    imageData,  \* renderToCanvas: the pixels getImageData reads off the canvas
    canvasData, \* renderToCanvas: the pixels putImageData writes back
    renderPc,   \* render run: "input" before the pixel operations, "done" after
    pipeCopy,   \* the copy of the script loaded: "first", "script.js" or "part_002"
    preview,    \* the blob shown in the preview, or a placeholder
    previewToggleBtn, \* whether the toggle button exists (previewToggleBtn not null)
    processedOutput,  \* processedOutput.textContent
    copyBtn,    \* whether copyBtn is shown (style.display is 'flex')
    clipboard,  \* the texts written to the clipboard so far
    copyRun,    \* the running copyToClipboard: position and text
    extractBtn  \* extractBtn: its disabled property

plateVars == <<tokens, found, platePc>>
textVars == <<rawText, result, textPc>>
gvVars == <<gvToken, gvLimit, gvResult, gvPc>>
preVars == <<origW, origH, scale, targetW, targetH, quality, blob, attempt, attempts,
             bestBlob, bestScore, attemptLog, finalBlob, prePc, preCopy>>
pipeVars == <<currentFile, originalBlob, hfi, orch, uploads, status, output>>
uiVars == <<pipeCopy, preview, previewToggleBtn, processedOutput, copyBtn, clipboard,
            copyRun, extractBtn>>
renderVars == <<canvasW, canvasH, optsSharpen, imageData, canvasData, renderPc>>
vars == <<plateVars, textVars, gvVars, preVars, pipeVars, uiVars, renderVars>>

(***************************************************************************)
(* Character classes of the regular expressions                            *)
(***************************************************************************)
Digits == {"0", "1", "2", "3", "4", "5", "6", "7", "8", "9"}

UpperLetters ==
    {"A", "B", "C", "D", "E", "F", "G", "H", "I", "J", "K", "L", "M",
     "N", "O", "P", "Q", "R", "S", "T", "U", "V", "W", "X", "Y", "Z"}

\* every character of s at the positions lo..hi (1-based) is in class
AllIn(s, lo, hi, class) == \A p \in lo..hi : s[p] \in class

\* /^KA\d{2}[A-Z]{1,2}\d{4}$/.test(s)
KA_VEHICLE_PATTERN(s) ==
    /\ Len(s) \in {9, 10}
    /\ s[1] = "K"
    /\ s[2] = "A"
    /\ AllIn(s, 3, 4, Digits)
    /\ AllIn(s, 5, Len(s) - 4, UpperLetters)
    /\ AllIn(s, Len(s) - 3, Len(s), Digits)

\* /^KA\d{2}$/.test(s)
ReDistrict(s) ==
    /\ Len(s) = 4
    /\ s[1] = "K"
    /\ s[2] = "A"
    /\ AllIn(s, 3, 4, Digits)

\* /^KA$/.test(s)
ReKA(s) == s = <<"K", "A">>

\* /^\d{2}$/.test(s)
ReTwoDigits(s) == Len(s) = 2 /\ AllIn(s, 1, 2, Digits)

\* /^\d{4}$/.test(s)
ReFourDigits(s) == Len(s) = 4 /\ AllIn(s, 1, 4, Digits)

\* /^[A-Z]{1,2}$/.test(s)
ReLetters(s) == Len(s) \in {1, 2} /\ AllIn(s, 1, Len(s), UpperLetters)

\* /^[A-Z]{1,2}\d{4}$/.test(s)
ReSeriesNumber(s) ==
    /\ Len(s) \in {5, 6}
    /\ AllIn(s, 1, Len(s) - 4, UpperLetters)
    /\ AllIn(s, Len(s) - 3, Len(s), Digits)

\* /^KA\d{2}[A-Z]{1,2}$/.test(s)
ReDistrictLetters(s) ==
    /\ Len(s) \in {5, 6}
    /\ s[1] = "K"
    /\ s[2] = "A"
    /\ AllIn(s, 3, 4, Digits)
    /\ AllIn(s, 5, Len(s), UpperLetters)

(***************************************************************************)
(* Confusion expander                                                      *)
(***************************************************************************)
CONFUSION_MAP ==
    [c \in {"O", "0", "I", "1", "Z", "2", "S", "5", "B", "8"} |->
        CASE c = "O" -> "0" [] c = "0" -> "O"
          [] c = "I" -> "1" [] c = "1" -> "I"
          [] c = "Z" -> "2" [] c = "2" -> "Z"
          [] c = "S" -> "5" [] c = "5" -> "S"
          [] c = "B" -> "8" [] c = "8" -> "B"]

\* if (CONFUSION_MAP[ch]): the character is a key of the map
Confusable(ch) == ch \in DOMAIN CONFUSION_MAP

\* the 32-bit value of 1 << n: the shift count is taken modulo 32 and bit 31
\* is the sign bit
ShiftLeftOne(n) ==
    LET s == n % 32
    IN  IF s = 31 THEN (-2147483647) - 1 ELSE 2 ^ s

\* mask & (1 << b) is non-zero, for 0 <= mask < 2^31
MaskBit(mask, b) ==
    LET s == b % 32
    IN  IF s = 31 THEN FALSE ELSE (mask \div (2 ^ s)) % 2 = 1

\* indices: the positions (0-based) of the confusable characters, ascending
RECURSIVE ConfusableIndices(_, _)
ConfusableIndices(chars, p) ==
    IF p >= Len(chars) THEN <<>>
    ELSE (IF Confusable(chars[p + 1]) THEN <<p>> ELSE <<>>)
            \o ConfusableIndices(chars, p + 1)

\* the inner loop over b: arr with every position indices[b] whose bit is set
\* in mask replaced through CONFUSION_MAP
ApplyMask(chars, indices, mask) ==
    [p \in 1..Len(chars) |->
        IF \E b \in 0..(Len(indices) - 1) :
               indices[b + 1] = p - 1 /\ MaskBit(mask, b)
        THEN CONFUSION_MAP[chars[p]]
        ELSE chars[p]]

SeqContains(seq, x) == \E k \in 1..Len(seq) : seq[k] = x

\* variants.add(v): a Set keeps insertion order and ignores a value it holds
SetAdd(variants, v) ==
    IF SeqContains(variants, v) THEN variants ELSE Append(variants, v)

\* the loop with the cap tested as variants.size <= limit: one variant too many
RECURSIVE VariantLoopOneMore(_, _, _, _, _, _)
VariantLoopOneMore(chars, indices, maxComb, limit, mask, variants) ==
    IF mask < maxComb /\ Len(variants) <= limit
    THEN VariantLoopOneMore(chars, indices, maxComb, limit, mask + 1,
                            SetAdd(variants, ApplyMask(chars, indices, mask)))
    ELSE variants

\* for (mask = 0; mask < maxComb && variants.size < limit; mask++)
RECURSIVE VariantLoop(_, _, _, _, _, _)
VariantLoop(chars, indices, maxComb, limit, mask, variants) ==
    IF mask < maxComb /\ Len(variants) < limit
    THEN VariantLoop(chars, indices, maxComb, limit, mask + 1,
                     SetAdd(variants, ApplyMask(chars, indices, mask)))
    ELSE variants

Min(a, b) == IF a < b THEN a ELSE b

\* maxComb = Math.min(1 << indices.length, 1 << 10)
MaxComb(n) == Min(ShiftLeftOne(n), ShiftLeftOne(10))

generateVariants(token, limit) ==
    LET indices == ConfusableIndices(token, 0)
    IN  IF Len(indices) = 0 THEN <<token>>
        ELSE VariantLoop(token, indices, MaxComb(Len(indices)), limit, 0, <<>>)

\* variants.find(v => KA_VEHICLE_PATTERN.test(v)): the position of the first
\* matching element, 0 for undefined
RECURSIVE FindPlate(_, _)
FindPlate(variants, k) ==
    IF k > Len(variants) THEN 0
    ELSE IF KA_VEHICLE_PATTERN(variants[k]) THEN k
    ELSE FindPlate(variants, k + 1)

\* the test without the variants, as in the first copy of the scan
tryPlateMatchExact(candidate) == KA_VEHICLE_PATTERN(candidate)

tryPlateMatchWithVariants(candidate) ==
    \/ KA_VEHICLE_PATTERN(candidate)
    \/ FindPlate(generateVariants(candidate, 20), 1) # 0

(***************************************************************************)
(* Plate reconstructor                                                     *)
(***************************************************************************)
\* the value null of findKAVehicleInTokens, and a { plate, indices } result
NoMatch == [found |-> FALSE, plate |-> <<>>, indices |-> <<>>]
PlateMatch(plate, indices) == [found |-> TRUE, plate |-> plate, indices |-> indices]

\* tokens[i] for a 0-based i
Tok(toks, i) == toks[i + 1]

\* the candidate test returning the last variant generated, not the one
\* that matches
TryCandidateLastVariant(candidate, indices) ==
    LET variants == generateVariants(candidate, 30)
        k == FindPlate(variants, 1)
    IN  IF k # 0 THEN PlateMatch(variants[Len(variants)], indices) ELSE NoMatch

\* const ok = generateVariants(candidate, 30).find(...); if (ok) return {...}
TryCandidate(candidate, indices) ==
    LET variants == generateVariants(candidate, 30)
        k == FindPlate(variants, 1)
    IN  IF k # 0 THEN PlateMatch(variants[k], indices) ELSE NoMatch

\* the direct case returning the token as read, not its matching variant
DirectCaseAsRead(toks, i) ==
    IF tryPlateMatchWithVariants(Tok(toks, i))
    THEN PlateMatch(Tok(toks, i), <<i>>)
    ELSE NoMatch

\* direct token or variant
DirectCase(toks, i) ==
    LET t == Tok(toks, i)
    IN  IF tryPlateMatchWithVariants(t)
        THEN LET variants == generateVariants(t, 20)
                 k == FindPlate(variants, 1)
             IN  PlateMatch(IF k # 0 THEN variants[k] ELSE t, <<i>>)
        ELSE NoMatch

\* the look-ahead pass with the split pair reported at the index of its
\* letters only
LookAheadAtLettersIndexOnly(toks, district, head, j, hi) ==
    LET tj == Tok(toks, j)
        joined == IF ReSeriesNumber(tj) \/ tryPlateMatchWithVariants(district \o tj)
                  THEN TryCandidate(district \o tj, head \o <<j>>)
                  ELSE NoMatch
    IN  IF joined.found THEN joined
        ELSE IF ReLetters(tj) /\ j + 1 <= hi /\ ReFourDigits(Tok(toks, j + 1))
             THEN TryCandidate(district \o tj \o Tok(toks, j + 1), head \o <<j>>)
             ELSE NoMatch

\* the look-ahead pass without the split pair: only a joined "letters+digits"
\* token continues a district
LookAheadAtJoinedOnly(toks, district, head, j, hi) ==
    LET tj == Tok(toks, j)
    IN  IF ReSeriesNumber(tj) \/ tryPlateMatchWithVariants(district \o tj)
        THEN TryCandidate(district \o tj, head \o <<j>>)
        ELSE NoMatch

\* one pass of the look-ahead loop body at continuation index j, window end hi:
\* the joined "letters+digits" token first, then the split pair
LookAheadAt(toks, district, head, j, hi) ==
    LET tj == Tok(toks, j)
        joined == IF ReSeriesNumber(tj) \/ tryPlateMatchWithVariants(district \o tj)
                  THEN TryCandidate(district \o tj, head \o <<j>>)
                  ELSE NoMatch
    IN  IF joined.found THEN joined
        ELSE IF ReLetters(tj) /\ j + 1 <= hi /\ ReFourDigits(Tok(toks, j + 1))
             THEN TryCandidate(district \o tj \o Tok(toks, j + 1), head \o <<j, j + 1>>)
             ELSE NoMatch

\* for (let j = from; j <= hi; j++) { ... }
RECURSIVE LookAheadLoop(_, _, _, _, _)
LookAheadLoop(toks, district, head, j, hi) ==
    IF j > hi THEN NoMatch
    ELSE LET r == LookAheadAt(toks, district, head, j, hi)
         IN  IF r.found THEN r
             ELSE LookAheadLoop(toks, district, head, j + 1, hi)

\* the "KA##" case with a window of five tokens for four
DistrictCaseWiderWindow(toks, i) ==
    LET t == Tok(toks, i)
    IN  IF ReDistrict(t)
        THEN LookAheadLoop(toks, t, <<i>>, i + 1, Min(i + 5, Len(toks) - 1))
        ELSE NoMatch

\* token = "KA##"
DistrictCase(toks, i) ==
    LET t == Tok(toks, i)
    IN  IF ReDistrict(t)
        THEN LookAheadLoop(toks, t, <<i>>, i + 1, Min(i + 4, Len(toks) - 1))
        ELSE NoMatch

\* the bare "KA" case with the index lists of the "KA##" case: [i, j] and
\* [i, j, j + 1]
BareKACaseDistrictIndices(toks, i) ==
    LET t == Tok(toks, i)
    IN  IF ReKA(t) /\ i + 1 < Len(toks) /\ ReTwoDigits(Tok(toks, i + 1))
        THEN LookAheadLoop(toks, <<"K", "A">> \o Tok(toks, i + 1), <<i>>,
                           i + 2, Min(i + 5, Len(toks) - 1))
        ELSE NoMatch

\* the bare "KA" case without its test of the token: any token before a
\* 2-digit token is taken for "KA"
BareKACaseAnyToken(toks, i) ==
    IF i + 1 < Len(toks) /\ ReTwoDigits(Tok(toks, i + 1))
    THEN LookAheadLoop(toks, <<"K", "A">> \o Tok(toks, i + 1), <<i, i + 1>>,
                       i + 2, Min(i + 5, Len(toks) - 1))
    ELSE NoMatch

\* token = "KA" followed by "51"
BareKACase(toks, i) ==
    LET t == Tok(toks, i)
    IN  IF ReKA(t) /\ i + 1 < Len(toks) /\ ReTwoDigits(Tok(toks, i + 1))
        THEN LookAheadLoop(toks, <<"K", "A">> \o Tok(toks, i + 1), <<i, i + 1>>,
                           i + 2, Min(i + 5, Len(toks) - 1))
        ELSE NoMatch

\* token like "KA51AK" then next "4247"
DistrictLettersCase(toks, i) ==
    LET t == Tok(toks, i)
    IN  IF ReDistrictLetters(t) /\ i + 1 < Len(toks) /\ ReFourDigits(Tok(toks, i + 1))
        THEN TryCandidate(t \o Tok(toks, i + 1), <<i, i + 1>>)
        ELSE NoMatch

\* token = series+number and previous tokens contain KA district
SeriesNumberCase(toks, i) ==
    LET t == Tok(toks, i)
        one == IF i - 1 >= 0 /\ ReDistrict(Tok(toks, i - 1))
               THEN TryCandidate(Tok(toks, i - 1) \o t, <<i - 1, i>>)
               ELSE NoMatch
    IN  IF ~ReSeriesNumber(t) THEN NoMatch
        ELSE IF one.found THEN one
        ELSE IF i - 2 >= 0 /\ ReKA(Tok(toks, i - 2)) /\ ReTwoDigits(Tok(toks, i - 1))
             THEN TryCandidate(Tok(toks, i - 2) \o Tok(toks, i - 1) \o t,
                               <<i - 2, i - 1, i>>)
             ELSE NoMatch

\* token = 4 digits and previous tokens are letters and KA district
FourDigitsCase(toks, i) ==
    LET t == Tok(toks, i)
        one == IF i - 1 >= 0 /\ ReLetters(Tok(toks, i - 1))
                  /\ i - 2 >= 0 /\ ReDistrict(Tok(toks, i - 2))
               THEN TryCandidate(Tok(toks, i - 2) \o Tok(toks, i - 1) \o t,
                                 <<i - 2, i - 1, i>>)
               ELSE NoMatch
    IN  IF ~ReFourDigits(t) THEN NoMatch
        ELSE IF one.found THEN one
        ELSE IF i - 3 >= 0 /\ ReKA(Tok(toks, i - 3)) /\ ReTwoDigits(Tok(toks, i - 2))
                  /\ ReLetters(Tok(toks, i - 1))
             THEN TryCandidate(Tok(toks, i - 3) \o Tok(toks, i - 2)
                                   \o Tok(toks, i - 1) \o t,
                               <<i - 3, i - 2, i - 1, i>>)
             ELSE NoMatch

\* the body of the scan loop at index i: the cases in source order, the first
\* that returns wins
ScanAt(toks, i) ==
    LET direct == DirectCase(toks, i)
        district == DistrictCase(toks, i)
        bareKA == BareKACase(toks, i)
        districtLetters == DistrictLettersCase(toks, i)
        seriesNumber == SeriesNumberCase(toks, i)
    IN  IF direct.found THEN direct
        ELSE IF district.found THEN district
        ELSE IF bareKA.found THEN bareKA
        ELSE IF districtLetters.found THEN districtLetters
        ELSE IF seriesNumber.found THEN seriesNumber
        ELSE FourDigitsCase(toks, i)

\* the scan that keeps the last match instead of returning the first
RECURSIVE ScanLoopKeepLast(_, _)
ScanLoopKeepLast(toks, i) ==
    IF i >= Len(toks) THEN NoMatch
    ELSE LET later == ScanLoopKeepLast(toks, i + 1)
         IN  IF later.found THEN later ELSE ScanAt(toks, i)

\* for (let i = 0; i < tokens.length; i++) { ... } return null
RECURSIVE ScanLoop(_, _)
ScanLoop(toks, i) ==
    IF i >= Len(toks) THEN NoMatch
    ELSE LET r == ScanAt(toks, i)
         IN  IF r.found THEN r ELSE ScanLoop(toks, i + 1)

findKAVehicleInTokens(toks) == ScanLoop(toks, 0)

(***************************************************************************)
(* The plate run: findKAVehicleInTokens applied to a token array           *)
(***************************************************************************)
\* the longest token array over FragmentVocabulary, and over the whole Vocabulary
MaxTokens == 5
MaxMixed == 3

tKA == <<"K", "A">>
t51 == <<"5", "1">>
tAK == <<"A", "K">>
t4247 == <<"4", "2", "4", "7">>
tIND == <<"I", "N", "D">>
tKA51 == <<"K", "A", "5", "1">>
tKAO5 == <<"K", "A", "O", "5">>
tAB1234 == <<"A", "B", "1", "2", "3", "4">>
tAK424Z == <<"A", "K", "4", "2", "4", "Z">>
tKA51AK == <<"K", "A", "5", "1", "A", "K">>
tKAO5AB1234 == <<"K", "A", "O", "5", "A", "B", "1", "2", "3", "4">>
tKA05AB123O == <<"K", "A", "0", "5", "A", "B", "1", "2", "3", "O">>
tKA05AB1234 == <<"K", "A", "0", "5", "A", "B", "1", "2", "3", "4">>
tKA51AK4247 == <<"K", "A", "5", "1", "A", "K", "4", "2", "4", "7">>

\* the four fragments of a plate read apart, and a noise token
FragmentVocabulary == {tKA, t51, tAK, t4247, tIND}

\* also joined fragments, misread fragments and misread whole plates
Vocabulary ==
    FragmentVocabulary
        \cup {tKA51, tKAO5, tAB1234, tAK424Z, tKA51AK, tKAO5AB1234, tKA05AB123O}

SeqsUpTo(S, n) == UNION {[1..k -> S] : k \in 0..n}

\* the most noise tokens between the head of a plate and its tail
MaxNoise == 4

Noise(k) == [p \in 1..k |-> tIND]

\* a district ("KA51", or "KA" and "51", or "KA51AK"), then noise, then a
\* series and number ("AB1234", or "AK" and "4247", or "4247"): the tail
\* inside, at the end of, and beyond the look-ahead window
WindowArrays ==
    {head \o Noise(k) \o tail :
        head \in {<<tKA51>>, <<tKA, t51>>, <<tKA51AK>>},
        k \in 0..MaxNoise,
        tail \in {<<tAB1234>>, <<tAK, t4247>>, <<t4247>>}}

TokenArrays ==
    SeqsUpTo(FragmentVocabulary, MaxTokens) \cup SeqsUpTo(Vocabulary, MaxMixed)
        \cup WindowArrays

PlateIdle == tokens = <<>> /\ found = NoMatch /\ platePc = "idle"

\* const found = findKAVehicleInTokens(tokens)
FindPlateInTokens ==
    /\ platePc = "input"
    /\ found' = findKAVehicleInTokens(tokens)
    /\ platePc' = "done"
    /\ UNCHANGED <<pipeVars, uiVars, renderVars>>
    /\ UNCHANGED <<tokens, textVars, gvVars, preVars>>

(***************************************************************************)
(* Text normalizer                                                         *)
(***************************************************************************)
LowerLetters ==
    {"a", "b", "c", "d", "e", "f", "g", "h", "i", "j", "k", "l", "m",
     "n", "o", "p", "q", "r", "s", "t", "u", "v", "w", "x", "y", "z"}

\* String.prototype.toUpperCase on one character: only a-z can be left when
\* it is applied
ToUpperChar(c) ==
    CASE c = "a" -> "A" [] c = "b" -> "B" [] c = "c" -> "C" [] c = "d" -> "D"
      [] c = "e" -> "E" [] c = "f" -> "F" [] c = "g" -> "G" [] c = "h" -> "H"
      [] c = "i" -> "I" [] c = "j" -> "J" [] c = "k" -> "K" [] c = "l" -> "L"
      [] c = "m" -> "M" [] c = "n" -> "N" [] c = "o" -> "O" [] c = "p" -> "P"
      [] c = "q" -> "Q" [] c = "r" -> "R" [] c = "s" -> "S" [] c = "t" -> "T"
      [] c = "u" -> "U" [] c = "v" -> "V" [] c = "w" -> "W" [] c = "x" -> "X"
      [] c = "y" -> "Y" [] c = "z" -> "Z" [] OTHER -> c

\* the characters /\s/ matches among those of the model
WhiteSpace == {" ", "\t", "\n", "\r"}

MapChars(s, F(_)) == [p \in 1..Len(s) |-> F(s[p])]

\* rawText.replace(/\r/g, ' ').replace(/\n/g, ' ')
ReplaceLineBreak(c) == IF c = "\r" \/ c = "\n" THEN " " ELSE c

\* the replacement with a class that lets the hyphen through
ReplaceNonAlnumButHyphen(c) ==
    IF c \in UpperLetters \cup LowerLetters \cup Digits \cup {"-"} THEN c ELSE " "

\* step1.replace(/[^A-Za-z0-9]/g, ' ')
ReplaceNonAlnum(c) ==
    IF c \in UpperLetters \cup LowerLetters \cup Digits THEN c ELSE " "

\* step3.split(/\s+/): the pieces between the maximal runs of white space, an
\* empty piece before a leading and after a trailing run
RECURSIVE SplitLoop(_, _, _, _)
SplitLoop(s, p, piece, pieces) ==
    IF p > Len(s) THEN Append(pieces, piece)
    ELSE IF s[p] \in WhiteSpace
         THEN IF p > 1 /\ s[p - 1] \in WhiteSpace
              THEN SplitLoop(s, p + 1, piece, pieces)
              ELSE SplitLoop(s, p + 1, <<>>, Append(pieces, piece))
         ELSE SplitLoop(s, p + 1, Append(piece, s[p]), pieces)

SplitWhiteSpace(s) == SplitLoop(s, 1, <<>>, <<>>)

\* .filter(Boolean): the empty string is falsy
FilterBoolean(pieces) == SelectSeq(pieces, LAMBDA x : x # <<>>)

\* step3 of processText
NormalizeText(text) ==
    LET step1 == MapChars(text, ReplaceLineBreak)
        step2 == MapChars(step1, ReplaceNonAlnum)
    IN  MapChars(step2, ToUpperChar)

\* tokens of processText
Tokenize(text) == FilterBoolean(SplitWhiteSpace(NormalizeText(text)))

NotFoundText == <<"No KA vehicle number found">>

\* the object processText returns for the result r of findKAVehicleInTokens
ProcessedResult(r, step3) ==
    IF r.found
    THEN [processed |-> r.plate, found |-> TRUE, allMatches |-> <<r.plate>>,
          fullProcessed |-> step3, type |-> "vehicle"]
    ELSE [processed |-> NotFoundText, found |-> FALSE, allMatches |-> <<>>,
          fullProcessed |-> step3, type |-> "none"]

\* the longest raw text drawn from TextAlphabet
MaxText == 4

TextAlphabet == {"k", "A", "5", "-", " ", "\n", "\r"}

\* "KA-51  AK\n4247"
ExampleText ==
    <<"K", "A", "-", "5", "1", " ", " ", "A", "K", "\n", "4", "2", "4", "7">>

RawTexts == SeqsUpTo(TextAlphabet, MaxText) \cup {ExampleText}

NoResult == [processed |-> <<>>, found |-> FALSE, allMatches |-> <<>>,
             fullProcessed |-> <<>>, type |-> "unset"]

TextIdle == rawText = <<>> /\ result = NoResult /\ textPc = "idle"

\* const result = processText(combinedText)
processText ==
    /\ textPc = "input"
    /\ tokens' = Tokenize(rawText)
    /\ found' = findKAVehicleInTokens(tokens')
    /\ result' = ProcessedResult(found', NormalizeText(rawText))
    /\ textPc' = "done"
    /\ UNCHANGED <<pipeVars, uiVars, renderVars>>
    /\ UNCHANGED <<rawText, platePc, gvVars, preVars>>

(***************************************************************************)
(* The variants run: generateVariants applied to a token and a limit       *)
(***************************************************************************)
\* the longest token drawn from VariantAlphabet
MaxVariantToken == 4

\* a character outside CONFUSION_MAP and two confusion pairs
VariantAlphabet == {"K", "O", "0", "S", "5"}

\* the token of n zeros
Zeros(n) == [p \in 1..n |-> "0"]

\* tokens with 10 and more confusable characters
LongTokens == {Zeros(n) : n \in {10, 11, 12, 30, 31, 32, 33, 63}}

VariantTokens == SeqsUpTo(VariantAlphabet, MaxVariantToken) \cup LongTokens

\* the default limit and those of the call sites, and small ones
VariantLimits == {1, 2, 3, 12, 20, 30}

GvIdle == gvToken = <<>> /\ gvLimit = 0 /\ gvResult = <<>> /\ gvPc = "idle"

\* const variants = generateVariants(token, limit)
GenerateVariants ==
    /\ gvPc = "input"
    /\ gvResult' = generateVariants(gvToken, gvLimit)
    /\ gvPc' = "done"
    /\ UNCHANGED <<pipeVars, uiVars, renderVars>>
    /\ UNCHANGED <<gvToken, gvLimit, plateVars, textVars, preVars>>

(***************************************************************************)
(* Compression controller: preprocessForOCR                                *)
(*                                                                         *)
(* scale is kept as an exact fraction (0.95 is 19/20) and quality in       *)
(* hundredths.  A score is kept in ScoreUnits: overallScore multiplied by  *)
(* 5 * 100 * MAX_FILE_SIZE, its dimension term rounded down to a unit.     *)
(***************************************************************************)
MAX_FILE_SIZE == 1048576
MAX_DIMENSION == 1400
MIN_DIMENSION == 600
maxAttempts == 8

Max(a, b) == IF a > b THEN a ELSE b

RECURSIVE GCD(_, _)
GCD(a, b) == IF b = 0 THEN a ELSE GCD(b, a % b)

\* the fraction n/d in lowest terms
Ratio(n, d) == LET g == GCD(n, d) IN [n |-> n \div g, d |-> d \div g]

\* floor(k * n / m) and the remainder, for k, n >= 0 and m > 0, by halving k
\* (the product k * n itself may not fit the model checker's integers)
RECURSIVE MulDiv(_, _, _)
MulDiv(k, n, m) ==
    IF k = 0 THEN [q |-> 0, r |-> 0]
    ELSE CHOOSE res \in {[q |-> 2 * h.q + (2 * h.r + (k % 2) * n) \div m,
                          r |-> (2 * h.r + (k % 2) * n) % m] :
                             h \in {MulDiv(k \div 2, n, m)}} : TRUE

\* Math.round(x * r) for an integer x >= 0 and a fraction r >= 0
RoundTimes(x, r) ==
    LET whole == MulDiv(x, r.n, r.d)
    IN  whole.q + (IF 2 * whole.r >= r.d THEN 1 ELSE 0)

\* the starting scale without the MIN_DIMENSION correction, as in the earlier
\* copy of the function
InitialScaleCapOnly(w, h) ==
    IF Max(w, h) <= MAX_DIMENSION THEN Ratio(1, 1) ELSE Ratio(MAX_DIMENSION, Max(w, h))

\* let scale = Math.min(MAX_DIMENSION / origW, MAX_DIMENSION / origH, 1);
\* if (scale * Math.min(origW, origH) < MIN_DIMENSION)
\*     scale = MIN_DIMENSION / Math.min(origW, origH);
InitialScale(w, h) ==
    LET capped == IF Max(w, h) <= MAX_DIMENSION THEN Ratio(1, 1)
                  ELSE Ratio(MAX_DIMENSION, Max(w, h))
    IN  IF capped.n * Min(w, h) < MIN_DIMENSION * capped.d
        THEN Ratio(MIN_DIMENSION, Min(w, h))
        ELSE capped

\* overallScore = sizeScore * 0.4 + dimensionScore * 0.4 + qualityScore * 0.2,
\* in ScoreUnits
OverallScore(size, w, h, tW, tH, q) ==
    LET sizeTerm == 200 * Max(0, MAX_FILE_SIZE - size)
        dimensionTerm == IF tW * tH >= w * h THEN 200 * MAX_FILE_SIZE
                         ELSE MulDiv(200 * MAX_FILE_SIZE, tW * tH, w * h).q
        qualityTerm == MAX_FILE_SIZE * q
    IN  sizeTerm + dimensionTerm + qualityTerm

\* the "smart progression" after an attempt over the limit: the next quality
\* and scale, and whether the loop breaks
Progression(att, q, sc, w, h) ==
    IF att < 3 THEN [quality |-> Max(75, q - 5), scale |-> sc, break |-> FALSE]
    ELSE IF att < 5 THEN [quality |-> Max(65, q - 8), scale |-> sc, break |-> FALSE]
    ELSE LET q1 == Max(55, q - 10)
             newScale == Ratio(sc.n * 19, sc.d * 20)
             newW == RoundTimes(w, newScale)
             newH == RoundTimes(h, newScale)
         IN  IF q1 <= 65
             THEN IF Min(newW, newH) >= MIN_DIMENSION
                  THEN [quality |-> q1, scale |-> newScale, break |-> FALSE]
                  ELSE IF q1 > 50
                       THEN [quality |-> Max(50, q1 - 15), scale |-> sc, break |-> FALSE]
                       ELSE [quality |-> q1, scale |-> sc, break |-> TRUE]
             ELSE [quality |-> q1, scale |-> sc, break |-> FALSE]

\* the loop test with <= for <: one attempt more
LoopContinuesOneMore(att) == att <= maxAttempts

\* for (let attempt = 0; attempt < maxAttempts; attempt++)
LoopContinues(att) == att < maxAttempts

\* the size test with < for <=: a blob of exactly MAX_FILE_SIZE does not stop
\* the loop
WithinLimitStrict(size) == size < MAX_FILE_SIZE

\* if (blob.size <= MAX_FILE_SIZE)
WithinLimit(size) == size <= MAX_FILE_SIZE

\* blob = null, and an encoded blob: the attempt that produced it and its size
NoBlob == [id |-> 0, size |-> 0]
Blob(id, size) == [id |-> id, size |-> size]

\* bestBlob || blob
BestOrLast(best, last) == IF best # NoBlob THEN best ELSE last

\* the images preprocessed: width and height
ImageSizes ==
    {<<1000, 1000>>, <<640, 600>>, <<400, 300>>, <<2800, 2100>>, <<4000, 1000>>,
     <<1400, 700>>}

\* the sizes the encoder may report for a blob, in bytes
EncodedSizes == {524288, 1040000, 1048576, 1048577, 2097152}

PreIdle ==
    /\ origW = 1 /\ origH = 1 /\ scale = Ratio(1, 1)
    /\ targetW = 1 /\ targetH = 1 /\ quality = 92
    /\ blob = NoBlob /\ attempt = 0 /\ attempts = 0
    /\ bestBlob = NoBlob /\ bestScore = 0
    /\ attemptLog = <<>> /\ finalBlob = NoBlob /\ prePc = "idle"
    /\ preCopy = "script.js"

\* the image is loaded: img.width and img.height are known
PreLoaded ==
    /\ \E img \in ImageSizes : origW = img[1] /\ origH = img[2]
    /\ scale = Ratio(1, 1)
    /\ targetW = 1 /\ targetH = 1 /\ quality = 92
    /\ blob = NoBlob /\ attempt = 0 /\ attempts = 0
    /\ bestBlob = NoBlob /\ bestScore = 0
    /\ attemptLog = <<>> /\ finalBlob = NoBlob /\ prePc = "start"
    /\ preCopy = "script.js"

\* preprocessForOCR up to the loop: the starting scale, dimensions and quality
StartPreprocess ==
    /\ preCopy = "script.js"
    /\ prePc = "start"
    /\ scale' = InitialScale(origW, origH)
    /\ targetW' = Max(RoundTimes(origW, InitialScale(origW, origH)), 1)
    /\ targetH' = Max(RoundTimes(origH, InitialScale(origW, origH)), 1)
    /\ quality' = 92
    /\ blob' = NoBlob
    /\ attempts' = 0
    /\ bestBlob' = NoBlob
    /\ bestScore' = 0
    /\ attempt' = 0
    /\ prePc' = "loop"
    /\ UNCHANGED <<pipeVars, uiVars, renderVars>>
    /\ UNCHANGED <<origW, origH, attemptLog, finalBlob, preCopy, plateVars, textVars,
                   gvVars>>

\* one pass of the loop body: render, encode to a blob of the given size,
\* score, keep the best, stop under the limit, else step quality and scale
Attempt(size) ==
    /\ preCopy = "script.js"
    /\ prePc = "loop"
    /\ LoopContinues(attempt)
    /\ LET tW == Max(RoundTimes(origW, scale), 1)
           tH == Max(RoundTimes(origH, scale), 1)
           encoded == Blob(attempt + 1, size)
           overallScore == OverallScore(size, origW, origH, tW, tH, quality)
           next == Progression(attempt, quality, scale, origW, origH)
       IN  /\ attempts' = attempt + 1
           /\ targetW' = tW
           /\ targetH' = tH
           /\ blob' = encoded
           /\ attemptLog' = Append(attemptLog,
                                   [w |-> tW, h |-> tH, q |-> quality, size |-> size,
                                    score |-> overallScore])
           /\ bestScore' = IF overallScore > bestScore THEN overallScore ELSE bestScore
           /\ bestBlob' = IF overallScore > bestScore THEN encoded ELSE bestBlob
           /\ IF WithinLimit(size)
              THEN /\ quality' = quality
                   /\ scale' = scale
                   /\ attempt' = attempt
                   /\ prePc' = "exit"
              ELSE /\ quality' = next.quality
                   /\ scale' = next.scale
                   /\ attempt' = IF next.break THEN attempt ELSE attempt + 1
                   /\ prePc' = IF next.break \/ ~LoopContinues(attempt + 1)
                               THEN "exit" ELSE "loop"
    /\ UNCHANGED <<pipeVars, uiVars, renderVars>>
    /\ UNCHANGED <<origW, origH, finalBlob, preCopy, plateVars, textVars, gvVars>>

\* const finalBlob = bestBlob || blob; ... return finalBlob
FinishPreprocess ==
    /\ preCopy = "script.js"
    /\ prePc = "exit"
    /\ finalBlob' = BestOrLast(bestBlob, blob)
    /\ prePc' = "done"
    /\ UNCHANGED <<pipeVars, uiVars, renderVars>>
    /\ UNCHANGED <<origW, origH, scale, targetW, targetH, quality, blob, attempt,
                   attempts, bestBlob, bestScore, attemptLog, preCopy, plateVars,
                   textVars, gvVars>>

(***************************************************************************)
(* Compression controller of src/unnamed/part_002: ten attempts, quality   *)
(* from 0.85 in steps of 0.1 down to 0.6, then scale in steps of 90%, the  *)
(* last blob returned.  It keeps no best blob and no score.                *)
(***************************************************************************)
PART2_ATTEMPTS == 10

\* let scale = Math.min(MAX_DIMENSION / origW, MAX_DIMENSION / origH, 1);
InitialScalePart2(w, h) ==
    IF Max(w, h) <= MAX_DIMENSION THEN Ratio(1, 1) ELSE Ratio(MAX_DIMENSION, Max(w, h))

\* the steps after an attempt over the limit: the next quality and scale, and
\* whether the loop breaks
ProgressionPart2(q, sc, w, h) ==
    IF q > 60 THEN [quality |-> Max(60, q - 10), scale |-> sc, break |-> FALSE]
    ELSE LET newScale == Ratio(sc.n * 9, sc.d * 10)
             newW == RoundTimes(w, newScale)
             newH == RoundTimes(h, newScale)
         IN  IF Min(newW, newH) < MIN_DIMENSION
             THEN IF q > 45
                  THEN [quality |-> Max(45, q - 10), scale |-> sc, break |-> FALSE]
                  ELSE [quality |-> q, scale |-> sc, break |-> TRUE]
             ELSE [quality |-> q, scale |-> newScale, break |-> FALSE]

\* the image is loaded by the copy of part_002
PreLoadedPart2 ==
    /\ \E img \in ImageSizes : origW = img[1] /\ origH = img[2]
    /\ scale = Ratio(1, 1)
    /\ targetW = 1 /\ targetH = 1 /\ quality = 85
    /\ blob = NoBlob /\ attempt = 0 /\ attempts = 0
    /\ bestBlob = NoBlob /\ bestScore = 0
    /\ attemptLog = <<>> /\ finalBlob = NoBlob /\ prePc = "start"
    /\ preCopy = "part_002"

\* preprocessForOCR of part_002 up to the loop
StartPreprocessPart2 ==
    /\ preCopy = "part_002"
    /\ prePc = "start"
    /\ scale' = InitialScalePart2(origW, origH)
    /\ targetW' = Max(RoundTimes(origW, InitialScalePart2(origW, origH)), 1)
    /\ targetH' = Max(RoundTimes(origH, InitialScalePart2(origW, origH)), 1)
    /\ quality' = 85
    /\ blob' = NoBlob
    /\ attempt' = 0
    /\ prePc' = "loop"
    /\ UNCHANGED <<pipeVars, uiVars, renderVars>>
    /\ UNCHANGED <<origW, origH, attempts, bestBlob, bestScore, attemptLog, finalBlob,
                   preCopy, plateVars, textVars, gvVars>>

\* one pass of the loop body of part_002: render, encode to a blob of the
\* given size, stop under the limit, else step quality or scale
AttemptPart2(size) ==
    /\ preCopy = "part_002"
    /\ prePc = "loop"
    /\ attempt < PART2_ATTEMPTS
    /\ LET tW == Max(RoundTimes(origW, scale), 1)
           tH == Max(RoundTimes(origH, scale), 1)
           next == ProgressionPart2(quality, scale, origW, origH)
       IN  /\ targetW' = tW
           /\ targetH' = tH
           /\ blob' = Blob(attempt + 1, size)
           /\ attemptLog' = Append(attemptLog,
                                   [w |-> tW, h |-> tH, q |-> quality, size |-> size,
                                    score |-> 0])
           /\ IF WithinLimit(size)
              THEN /\ quality' = quality
                   /\ scale' = scale
                   /\ attempt' = attempt
                   /\ prePc' = "exit"
              ELSE /\ quality' = next.quality
                   /\ scale' = next.scale
                   /\ attempt' = IF next.break THEN attempt ELSE attempt + 1
                   /\ prePc' = IF next.break \/ attempt + 1 >= PART2_ATTEMPTS
                               THEN "exit" ELSE "loop"
    /\ UNCHANGED <<pipeVars, uiVars, renderVars>>
    /\ UNCHANGED <<origW, origH, attempts, bestBlob, bestScore, finalBlob, preCopy,
                   plateVars, textVars, gvVars>>

\* return blob
FinishPreprocessPart2 ==
    /\ preCopy = "part_002"
    /\ prePc = "exit"
    /\ finalBlob' = blob
    /\ prePc' = "done"
    /\ UNCHANGED <<pipeVars, uiVars, renderVars>>
    /\ UNCHANGED <<origW, origH, scale, targetW, targetH, quality, blob, attempt,
                   attempts, bestBlob, bestScore, attemptLog, preCopy, plateVars,
                   textVars, gvVars>>

(***************************************************************************)
(* Filter pipeline: the pixel operations of renderToCanvas.  The pixels    *)
(* are the Uint8ClampedArray of getImageData: four bytes (red, green,      *)
(* blue, alpha) per pixel, row by row, at the 0-based positions of the     *)
(* array.  No caller sets opts.forcePixelContrast, so the manual contrast  *)
(* loop does not run; grayscale and contrast are ctx.filter, applied by    *)
(* drawImage before the pixels are read.                                   *)
(***************************************************************************)
\* const kernel = [0, -1, 0, -1, 5, -1, 0, -1, 0]
kernel == <<0, -1, 0, -1, 5, -1, 0, -1, 0>>

\* Math.min(255, Math.max(0, sum))
Clamp(sum) == Min(255, Max(0, sum))

\* the loops over ky and kx, from kernel position kIdx on:
\* sum += copy[((y + ky) * w + (x + kx)) * 4 + ch] * kernel[kIdx++]
RECURSIVE KernelSum(_, _, _, _, _, _)
KernelSum(source, w, x, y, ch, kIdx) ==
    IF kIdx > 8 THEN 0
    ELSE LET ky == (kIdx \div 3) - 1
             kx == (kIdx % 3) - 1
             px == ((y + ky) * w + (x + kx)) * 4 + ch
         IN  source[px] * kernel[kIdx + 1] + KernelSum(source, w, x, y, ch, kIdx + 1)

\* the kernel reading the array it writes to
KernelSourceInPlace(copy, data) == data

\* the array the kernel reads: copy, made of data before the loops
KernelSource(copy, data) == copy

\* the body of the loop over x: the three colour bytes of pixel (x, y) are
\* written to data, then its alpha byte is written from copy
SharpenPixel(data, copy, w, x, y) ==
    LET out == (y * w + x) * 4
    IN  [px \in DOMAIN data |->
            IF px \in out..(out + 2)
            THEN Clamp(KernelSum(KernelSource(copy, data), w, x, y, px - out, 0))
            ELSE IF px = out + 3 THEN copy[px]
            ELSE data[px]]

\* for (let y = 1; y < h - 1; y++) for (let x = 1; x < w - 1; x++) { ... }
RECURSIVE SharpenLoop(_, _, _, _, _, _)
SharpenLoop(data, copy, w, h, y, x) ==
    IF y >= h - 1 THEN data
    ELSE IF x >= w - 1 THEN SharpenLoop(data, copy, w, h, y + 1, 1)
    ELSE SharpenLoop(SharpenPixel(data, copy, w, x, y), copy, w, h, y, x + 1)

\* if (opts.sharpen) { const copy = new Uint8ClampedArray(data); ... }
Sharpen(data, w, h) == SharpenLoop(data, data, w, h, 1, 1)

\* the longest side of a canvas, and the number of pixel patterns drawn
MaxSide == 4
MaxPattern == 4

\* the pixels drawImage leaves on a canvas of w by h for pattern n: bytes
\* spread over 0..255
DrawnPixels(w, h, n) ==
    [px \in 0..(w * h * 4 - 1) |-> ((px + n) * (px + n) * 7 + px * n * 13) % 256]

RenderIdle ==
    /\ canvasW = 1 /\ canvasH = 1 /\ optsSharpen = FALSE
    /\ imageData = DrawnPixels(1, 1, 1) /\ canvasData = DrawnPixels(1, 1, 1)
    /\ renderPc = "idle"

\* renderToCanvas from getImageData to putImageData
renderToCanvas ==
    /\ renderPc = "input"
    /\ canvasData' = IF optsSharpen THEN Sharpen(imageData, canvasW, canvasH)
                     ELSE imageData
    /\ renderPc' = "done"
    /\ UNCHANGED <<canvasW, canvasH, optsSharpen, imageData, plateVars, textVars,
                   gvVars, preVars, pipeVars, uiVars>>

(***************************************************************************)
(* File pipeline of script.js: handleFileInput sets the globals            *)
(* currentFile and originalBlob and schedules orchestrateOCRandExtraction, *)
(* which runs performOCR_both on them.  Each await is a point where        *)
(* another call may run.  A media type "image/png" is the pair of its      *)
(* parts; preprocessForOCR is taken by its outcome: a blob of some size,   *)
(* or a rejection (loadImage rejects, or the encoder yields no blob and    *)
(* blob.size throws).                                                      *)
(***************************************************************************)
LIGHT_PREPROCESS_THRESHOLD == 307200

\* part_002: if (file.size > 200 * 1024)
LIGHT_THRESHOLD_PART2 == 204800

MediaType(major, sub) == [major |-> major, sub |-> sub]

ALLOWED_TYPES ==
    <<MediaType("image", "jpeg"), MediaType("image", "jpg"),
      MediaType("image", "png"), MediaType("image", "gif")>>

\* file && ALLOWED_TYPES.some(t => file.type === t || file.type.startsWith('image/'))
isValidImageFile(file) ==
    \E k \in 1..Len(ALLOWED_TYPES) :
        file.type = ALLOWED_TYPES[k] \/ file.type.major = "image"

\* file.size <= MAX_FILE_SIZE
isFileSizeValid(file) == file.size <= MAX_FILE_SIZE

\* a file the user picks: name, declared type, byte length, and whether the
\* browser can decode it as an image
File(name, type, size, decodable) ==
    [name |-> name, type |-> type, size |-> size, decodable |-> decodable]

NullFile == File("null", MediaType("", ""), 0, FALSE)

\* null, the file itself as a blob, and a JPEG blob rendered from the file
NoFile == [file |-> NullFile, kind |-> "null", size |-> 0]
FileBlob(file) == [file |-> file, kind |-> "file", size |-> file.size]
ProcessedBlob(file, size) == [file |-> file, kind |-> "processed", size |-> size]

\* the files picked in the runs
PickedFiles ==
    {File("big.jpg", MediaType("image", "jpeg"), 2097152, TRUE),
     File("mid.png", MediaType("image", "png"), 512000, TRUE),
     File("small.gif", MediaType("image", "gif"), 102400, TRUE),
     File("photo.webp", MediaType("image", "webp"), 102400, TRUE),
     File("notes.txt", MediaType("text", "plain"), 1000, FALSE),
     File("empty.jpg", MediaType("image", "jpeg"), 0, FALSE),
     File("corrupt.jpg", MediaType("image", "jpeg"), 2097152, FALSE)}

\* the sizes preprocessForOCR may return (within the limit, or the best
\* effort over it) and the sizes of the light re-encoding
PreprocessedSizes == {1040000, 1048577}
LightSizes == {204800, 512000}

\* the two calls of handleFileInput of a run
Invocations == {1, 2}

\* setStatus(message, isError)
Status(message, isError) == [message |-> message, isError |-> isError]

\* a recognized text: the text read off a blob; null
NoText == [name |-> "null", kind |-> "null"]
Text(b) == [name |-> b.file.name, kind |-> b.kind]

HfiIdle == [pc |-> "idle", file |-> NullFile, preprocess |-> "none"]

OrchIdle ==
    [pc |-> "idle", stage |-> "none", processedBlob |-> NoFile,
     originalBlob |-> NoFile, processedText |-> NoText, originalText |-> NoText,
     errors |-> {}, outcome |-> "none"]

\* the texts of processedOutput: the placeholder, those of the runs, and
\* result.processed for a plate that was found and for none
WaitingText == "Waiting for text extraction..."
ProcessingText == "Processing..."
NoTextToProcess == "No text to process"
ProcessingFailed == "Processing failed"
NotFoundMessage == "No KA vehicle number found"
PlateText == "KA51AK4247"

\* the preview placeholders 'No image selected' (NoFile) and 'Preview
\* unavailable'
PreviewUnavailable == [file |-> NullFile, kind |-> "unavailable", size |-> 0]

\* no copyToClipboard is running
CopyIdle == [pc |-> "idle", text |-> ""]

\* the page as loaded by the copy c of the script
PipeStart(c) ==
    /\ pipeCopy = c
    /\ currentFile = NoFile /\ originalBlob = NoFile
    /\ hfi = [i \in Invocations |-> HfiIdle]
    /\ orch = [i \in Invocations |-> OrchIdle]
    /\ uploads = {}
    /\ status = Status(IF c = "first"
                       THEN "OCR View v0.1 ready to extract KA vehicle numbers"
                       ELSE "OCR View ready", FALSE)
    /\ output = [kind |-> "placeholder", texts |-> <<>>]
    /\ preview = NoFile
    /\ previewToggleBtn = FALSE
    /\ processedOutput = WaitingText
    /\ copyBtn = FALSE
    /\ clipboard = {}
    /\ copyRun = CopyIdle
    /\ extractBtn = [disabled |-> FALSE]

PipeIdle == PipeStart("script.js")

\* setTimeout(() => orchestrateOCRandExtraction(), 300): handleFileInput
\* returns and the timer of call i is pending
Scheduled(i, how) ==
    /\ hfi' = [hfi EXCEPT ![i].pc = "done", ![i].preprocess = how]
    /\ orch' = [orch EXCEPT ![i].pc = "timer"]

\* the end of handleFileInput: setStatus of the branch taken,
\* ensurePreviewToggle() and the timer
Finish(i, how, message, isError) ==
    /\ status' = Status(message, isError)
    /\ previewToggleBtn' = TRUE
    /\ Scheduled(i, how)

\* currentFile = file; setPreviewFromBlob(originalBlob): with originalBlob
\* null URL.createObjectURL throws a TypeError, in a catch block or in a try
\* whose catch block makes the same call, and handleFileInput ends there
UseOriginal(i, how, message, isError) ==
    /\ currentFile' = FileBlob(hfi[i].file)
    /\ IF originalBlob = NoFile
       THEN /\ hfi' = [hfi EXCEPT ![i].pc = "aborted", ![i].preprocess = how]
            /\ UNCHANGED <<orch, preview, previewToggleBtn, status>>
       ELSE /\ preview' = originalBlob
            /\ Finish(i, how, message, isError)

ReadyMessage == "Image ready. Preview shows processed (if applied)."

\* handleFileInput(file) up to its first await, or to its end, with the
\* threshold of light preprocessing of the copy; the calls are numbered in the
\* order they are made, each for a file of its own
FileInput(i, file, threshold) ==
    /\ hfi[i].pc = "idle"
    /\ \A j \in Invocations : j < i => hfi[j].pc # "idle"
    /\ \A j \in Invocations : hfi[j].file # file
    /\ IF ~isValidImageFile(file)
       THEN /\ status' = Status("Please select a valid image file (JPG/PNG/GIF)", TRUE)
            /\ hfi' = [hfi EXCEPT ![i].pc = "rejected", ![i].file = file]
            /\ UNCHANGED <<currentFile, originalBlob, orch, preview, previewToggleBtn>>
       ELSE /\ originalBlob' = FileBlob(file)
            /\ IF ~isFileSizeValid(file)
               THEN /\ status' = Status("Image >1MB - preprocessing...", FALSE)
                    /\ hfi' = [hfi EXCEPT ![i].pc = "preprocess", ![i].file = file]
                    /\ UNCHANGED <<currentFile, orch, preview, previewToggleBtn>>
               ELSE IF file.size > threshold
               THEN /\ hfi' = [hfi EXCEPT ![i].pc = "light", ![i].file = file]
                    /\ UNCHANGED <<currentFile, orch, status, preview, previewToggleBtn>>
               ELSE /\ currentFile' = FileBlob(file)
                    /\ preview' = FileBlob(file)
                    /\ status' = Status(ReadyMessage, FALSE)
                    /\ previewToggleBtn' = TRUE
                    /\ hfi' = [hfi EXCEPT ![i].pc = "done", ![i].file = file]
                    /\ orch' = [orch EXCEPT ![i].pc = "timer"]
    /\ UNCHANGED <<pipeCopy, uploads, output, processedOutput, copyBtn, clipboard, copyRun,
                   extractBtn, plateVars, textVars, gvVars, preVars, renderVars>>

handleFileInput(i, file) ==
    /\ pipeCopy = "script.js"
    /\ FileInput(i, file, LIGHT_PREPROCESS_THRESHOLD)

\* handleFileInput of part_002: light preprocessing above 200 KB
handleFileInputPart2(i, file) ==
    /\ pipeCopy = "part_002"
    /\ FileInput(i, file, LIGHT_THRESHOLD_PART2)

\* const processedBlob = await preprocessForOCR(file) resolves (the same
\* statements in both copies)
PreprocessReturns(i, size) ==
    /\ hfi[i].pc = "preprocess"
    /\ hfi[i].file.decodable
    /\ currentFile' = ProcessedBlob(hfi[i].file, size)
    /\ preview' = ProcessedBlob(hfi[i].file, size)
    /\ Finish(i, "processed", "Processed image ready (preview shows processed).", FALSE)
    /\ UNCHANGED <<pipeCopy, originalBlob, uploads, output, processedOutput, copyBtn,
                   clipboard, copyRun, extractBtn, plateVars, textVars, gvVars, preVars,
                   renderVars>>

\* await preprocessForOCR(file) rejects: catch (err)
PreprocessThrows(i) ==
    /\ hfi[i].pc = "preprocess"
    /\ UseOriginal(i, "threw", "Preprocess failed - using original image", TRUE)
    /\ UNCHANGED <<pipeCopy, originalBlob, uploads, output, processedOutput, copyBtn,
                   clipboard, copyRun, extractBtn, plateVars, textVars, gvVars, preVars,
                   renderVars>>

\* the size test without the size: any blob the encoder yields is used
LightAcceptedAnySize(lightBlob, file) == lightBlob # NoFile

\* lightBlob && lightBlob.size <= file.size * 0.9
LightAccepted(lightBlob, file) ==
    lightBlob # NoFile /\ 10 * lightBlob.size <= 9 * file.size

\* part_002: lightBlob && lightBlob.size <= MAX_FILE_SIZE
LightAcceptedPart2(lightBlob, file) ==
    lightBlob # NoFile /\ lightBlob.size <= MAX_FILE_SIZE

\* the light preprocessing resolves with lightBlob (NoFile for null), which
\* is used when accepted
LightResolved(i, lightBlob, accepted) ==
    /\ hfi[i].pc = "light"
    /\ hfi[i].file.decodable
    /\ IF accepted
       THEN /\ currentFile' = lightBlob
            /\ preview' = lightBlob
            /\ Finish(i, "light", ReadyMessage, FALSE)
       ELSE UseOriginal(i, "light not used", ReadyMessage, FALSE)
    /\ UNCHANGED <<pipeCopy, originalBlob, uploads, output, processedOutput, copyBtn,
                   clipboard, copyRun, extractBtn, plateVars, textVars, gvVars, preVars,
                   renderVars>>

LightReturns(i, lightBlob) ==
    /\ pipeCopy = "script.js"
    /\ LightResolved(i, lightBlob, LightAccepted(lightBlob, hfi[i].file))

\* part_002: const lightBlob = await preprocessForOCR(file) resolves
LightReturnsPart2(i, lightBlob) ==
    /\ pipeCopy = "part_002"
    /\ LightResolved(i, lightBlob, LightAcceptedPart2(lightBlob, hfi[i].file))

\* the light preprocessing rejects: catch (err)
LightThrows(i) ==
    /\ hfi[i].pc = "light"
    /\ UseOriginal(i, "threw", ReadyMessage, FALSE)
    /\ UNCHANGED <<pipeCopy, originalBlob, uploads, output, processedOutput, copyBtn,
                   clipboard, copyRun, extractBtn, plateVars, textVars, gvVars, preVars,
                   renderVars>>

\* what a recognizer call may come to: a text, no text, or an error (an
\* HTTP error or IsErroredOnProcessing for OCR.Space, a throw for Tesseract)
RecognizerOutcomes == {"text", "empty", "error"}

\* the blob the running performOCR_single of run i was given
StageBlob(i) ==
    IF orch[i].stage = "processed" THEN orch[i].processedBlob ELSE orch[i].originalBlob

\* the merge of performOCR_both: pieces of processedText and, if new,
\* originalText
Pieces(processedText, originalText) ==
    (IF processedText # NoText THEN <<processedText>> ELSE <<>>)
        \o (IF originalText # NoText /\ originalText # processedText
            THEN <<originalText>> ELSE <<>>)

\* the timer of call i fires: orchestrateOCRandExtraction up to its first
\* await, inside performOCR_space(processedBlob), which posts the blob
orchestrateOCRandExtraction(i) ==
    /\ pipeCopy = "script.js"
    /\ orch[i].pc = "timer"
    /\ IF currentFile = NoFile \/ originalBlob = NoFile
       THEN /\ status' = Status("Please select an image first", TRUE)
            /\ orch' = [orch EXCEPT ![i].pc = "done", ![i].outcome = "no image"]
            /\ UNCHANGED <<uploads, output>>
       ELSE /\ status' = Status("Running OCR on processed + original images...", FALSE)
            /\ output' = [kind |-> "running", texts |-> <<>>]
            /\ orch' = [orch EXCEPT ![i].pc = "space", ![i].stage = "processed",
                                    ![i].processedBlob = currentFile,
                                    ![i].originalBlob = originalBlob]
            /\ uploads' = uploads \cup {currentFile}
    /\ UNCHANGED <<pipeCopy, currentFile, originalBlob, hfi, preview, previewToggleBtn,
                   processedOutput, copyBtn, clipboard, copyRun, extractBtn, plateVars,
                   textVars, gvVars, preVars, renderVars>>

\* the rest of a run once its text is known: processText(text) finds a plate
\* or none, and the result is shown
ShowResult(i, plateFound) ==
    /\ processedOutput' = IF plateFound THEN PlateText ELSE NotFoundMessage
    /\ copyBtn' = plateFound
    /\ status' = IF plateFound
                 THEN Status("Found Karnataka vehicle number", FALSE)
                 ELSE Status("No Karnataka vehicle number pattern found", FALSE)

\* performOCR_single of run i has come to text (NoText for null) with the
\* errors errs logged: performOCR_both goes on to the original image, or
\* merges and orchestrateOCRandExtraction shows the outcome
SingleDone(i, text, errs) ==
    IF orch[i].stage = "processed"
    THEN /\ orch' = [orch EXCEPT ![i].pc = "space", ![i].stage = "original",
                                 ![i].processedText = text, ![i].errors = errs]
         /\ uploads' = uploads \cup {orch[i].originalBlob}
         /\ UNCHANGED <<status, output, processedOutput, copyBtn>>
    ELSE LET pieces == Pieces(orch[i].processedText, text)
         IN  /\ uploads' = uploads
             /\ IF pieces = <<>>
                THEN /\ status' = Status("No text detected", TRUE)
                     /\ output' = [kind |-> "no text", texts |-> <<>>]
                     /\ processedOutput' = NoTextToProcess
                     /\ copyBtn' = copyBtn
                     /\ orch' = [orch EXCEPT ![i].pc = "done", ![i].originalText = text,
                                             ![i].errors = errs,
                                             ![i].outcome = "no text"]
                ELSE /\ output' = [kind |-> "text", texts |-> pieces]
                     /\ \E plateFound \in BOOLEAN : ShowResult(i, plateFound)
                     /\ orch' = [orch EXCEPT ![i].pc = "done", ![i].originalText = text,
                                             ![i].errors = errs, ![i].outcome = "text"]

\* the fetch of performOCR_space resolves
SpaceResponds(i, outcome) ==
    /\ pipeCopy = "script.js"
    /\ orch[i].pc = "space"
    /\ IF outcome = "error"
       THEN /\ orch' = [orch EXCEPT ![i].pc = "tesseract",
                                    ![i].errors = @ \cup {<<"OCR.Space", orch[i].stage>>}]
            /\ UNCHANGED <<uploads, status, output, processedOutput, copyBtn>>
       ELSE SingleDone(i, IF outcome = "text" THEN Text(StageBlob(i)) ELSE NoText,
                       orch[i].errors)
    /\ UNCHANGED <<pipeCopy, currentFile, originalBlob, hfi, preview, previewToggleBtn,
                   clipboard, copyRun, extractBtn, plateVars, textVars, gvVars, preVars,
                   renderVars>>

\* performOCR_tesseract, the fallback, resolves or throws
TesseractResponds(i, outcome) ==
    /\ orch[i].pc = "tesseract"
    /\ SingleDone(i, IF outcome = "text" THEN Text(StageBlob(i)) ELSE NoText,
                  IF outcome = "error"
                  THEN orch[i].errors \cup {<<"Tesseract", orch[i].stage>>}
                  ELSE orch[i].errors)
    /\ UNCHANGED <<pipeCopy, currentFile, originalBlob, hfi, preview, previewToggleBtn,
                   clipboard, copyRun, extractBtn, plateVars, textVars, gvVars, preVars,
                   renderVars>>

\* clearBtn is clicked: clearAll
clearAll ==
    /\ pipeCopy = "script.js"
    /\ currentFile' = NoFile
    /\ originalBlob' = NoFile
    /\ output' = [kind |-> "placeholder", texts |-> <<>>]
    /\ processedOutput' = WaitingText
    /\ preview' = NoFile
    /\ status' = Status("", FALSE)
    /\ copyBtn' = FALSE
    /\ previewToggleBtn' = FALSE
    /\ UNCHANGED <<pipeCopy, hfi, orch, uploads, clipboard, copyRun, extractBtn, plateVars,
                   textVars, gvVars, preVars, renderVars>>

\* copyBtn is clicked, which a button with display none cannot be: the
\* handler up to the await of navigator.clipboard.writeText(txt).  One
\* copyToClipboard runs at a time.
copyBtnClick ==
    /\ copyBtn
    /\ copyRun.pc = "idle"
    /\ copyRun' = IF processedOutput \notin {"", WaitingText, NotFoundMessage}
               THEN [pc |-> "writing", text |-> processedOutput]
               ELSE copyRun
    /\ UNCHANGED <<pipeCopy, currentFile, originalBlob, hfi, orch, uploads, status, output,
                   preview, previewToggleBtn, processedOutput, copyBtn, clipboard,
                   extractBtn, plateVars, textVars, gvVars, preVars, renderVars>>

\* writeText resolves (the text is on the clipboard) or rejects
CopyResolves(ok) ==
    /\ copyRun.pc = "writing"
    /\ IF ok
       THEN /\ clipboard' = clipboard \cup {copyRun.text}
            /\ status' = Status(IF pipeCopy = "first"
                                THEN "Vehicle number copied to clipboard!"
                                ELSE "Copied to clipboard!", FALSE)
            /\ copyRun' = [copyRun EXCEPT !.pc = "timer"]
       ELSE /\ clipboard' = clipboard
            /\ status' = Status(IF pipeCopy = "first"
                                THEN "Failed to copy to clipboard"
                                ELSE "Copy failed", TRUE)
            /\ copyRun' = CopyIdle
    /\ UNCHANGED <<pipeCopy, currentFile, originalBlob, hfi, orch, uploads, output,
                   preview, previewToggleBtn, processedOutput, copyBtn, extractBtn,
                   plateVars, textVars, gvVars, preVars, renderVars>>

\* setTimeout(() => setStatus(''), 2000) fires
CopyTimerFires ==
    /\ copyRun.pc = "timer"
    /\ status' = Status("", FALSE)
    /\ copyRun' = CopyIdle
    /\ UNCHANGED <<pipeCopy, currentFile, originalBlob, hfi, orch, uploads, output,
                   preview, previewToggleBtn, processedOutput, copyBtn, clipboard,
                   extractBtn, plateVars, textVars, gvVars, preVars, renderVars>>

(***************************************************************************)
(* The first copy of the script (script.js up to line 485; part_000 of     *)
(* src/unnamed is an earlier version of it): handleFile takes a file of at *)
(* most 1 MB as it is, and extractText runs on a click of extractBtn.  The *)
(* calls of handleFile are kept in hfi and the runs of extractText in      *)
(* orch.                                                                   *)
(***************************************************************************)
\* handleFile(file) to its end; showPreview has started to read the file
handleFile(i, file) ==
    /\ pipeCopy = "first"
    /\ hfi[i].pc = "idle"
    /\ \A j \in Invocations : j < i => hfi[j].pc # "idle"
    /\ \A j \in Invocations : hfi[j].file # file
    /\ IF ~isValidImageFile(file)
       THEN /\ status' = Status("Please select a valid image file (JPG, PNG, GIF)", TRUE)
            /\ hfi' = [hfi EXCEPT ![i].pc = "rejected", ![i].file = file]
            /\ UNCHANGED currentFile
       ELSE IF ~isFileSizeValid(file)
       THEN /\ status' = Status("Image too large. Please use images under 1MB", TRUE)
            /\ hfi' = [hfi EXCEPT ![i].pc = "rejected", ![i].file = file]
            /\ UNCHANGED currentFile
       ELSE /\ currentFile' = FileBlob(file)
            /\ status' = Status("Image loaded. Click Extract Text to process.", FALSE)
            /\ hfi' = [hfi EXCEPT ![i].pc = IF file.size > 0 THEN "reading" ELSE "done",
                                  ![i].file = file]
    /\ UNCHANGED <<pipeCopy, originalBlob, orch, uploads, output, preview,
                   previewToggleBtn, processedOutput, copyBtn, clipboard, copyRun,
                   extractBtn, plateVars, textVars, gvVars, preVars, renderVars>>

\* reader.onload of showPreview
PreviewLoads(i) ==
    /\ pipeCopy = "first"
    /\ hfi[i].pc = "reading"
    /\ preview' = FileBlob(hfi[i].file)
    /\ hfi' = [hfi EXCEPT ![i].pc = "done"]
    /\ UNCHANGED <<pipeCopy, currentFile, originalBlob, orch, uploads, status, output,
                   previewToggleBtn, processedOutput, copyBtn, clipboard, copyRun,
                   extractBtn, plateVars, textVars, gvVars, preVars, renderVars>>

\* reader.onerror of showPreview
PreviewFails(i) ==
    /\ pipeCopy = "first"
    /\ hfi[i].pc = "reading"
    /\ preview' = PreviewUnavailable
    /\ status' = Status("Failed to load image preview", TRUE)
    /\ hfi' = [hfi EXCEPT ![i].pc = "done"]
    /\ UNCHANGED <<pipeCopy, currentFile, originalBlob, orch, uploads, output,
                   previewToggleBtn, processedOutput, copyBtn, clipboard, copyRun,
                   extractBtn, plateVars, textVars, gvVars, preVars, renderVars>>

\* extractBtn.disabled after the try statement of a run that ended in the
\* way how, were the button enabled at the end of the try block and of the
\* catch block for the finally block
DisabledAfterUnlessReturn(how) == how = "no text"

\* finally { extractBtn.disabled = false }
DisabledAfter(how) == FALSE

\* extractBtn is clicked, which a disabled button cannot be: extractText up
\* to its await, inside performOCR, which posts currentFile
extractText(k) ==
    /\ pipeCopy = "first"
    /\ ~extractBtn.disabled
    /\ orch[k].pc = "idle"
    /\ \A j \in Invocations : j < k => orch[j].pc # "idle"
    /\ IF currentFile = NoFile
       THEN /\ status' = Status("Please select an image first", TRUE)
            /\ UNCHANGED <<extractBtn, output, processedOutput, orch, uploads>>
       ELSE /\ status' = Status("Processing image...", FALSE)
            /\ extractBtn' = [extractBtn EXCEPT !.disabled = TRUE]
            /\ output' = [kind |-> "running", texts |-> <<>>]
            /\ processedOutput' = ProcessingText
            /\ orch' = [orch EXCEPT ![k].pc = "space", ![k].stage = "processed",
                                    ![k].processedBlob = currentFile]
            /\ uploads' = uploads \cup {currentFile}
    /\ UNCHANGED <<pipeCopy, currentFile, originalBlob, hfi, preview, previewToggleBtn,
                   copyBtn, clipboard, copyRun, plateVars, textVars, gvVars, preVars,
                   renderVars>>

\* performOCR of run k resolves with a text or with null, or throws: the rest
\* of extractText
OcrResponds(k, outcome) ==
    /\ pipeCopy = "first"
    /\ orch[k].pc = "space"
    /\ IF outcome = "text"
       THEN /\ output' = [kind |-> "text", texts |-> <<Text(orch[k].processedBlob)>>]
            /\ \E plateFound \in BOOLEAN : ShowResult(k, plateFound)
            /\ orch' = [orch EXCEPT ![k].pc = "done", ![k].outcome = "text",
                                    ![k].processedText = Text(orch[k].processedBlob)]
            /\ extractBtn' = [extractBtn EXCEPT !.disabled = DisabledAfter("text")]
       ELSE IF outcome = "empty"
       THEN /\ status' = Status("No text detected in the image", TRUE)
            /\ output' = [kind |-> "no text", texts |-> <<>>]
            /\ processedOutput' = NoTextToProcess
            /\ copyBtn' = copyBtn
            /\ orch' = [orch EXCEPT ![k].pc = "done", ![k].outcome = "no text"]
            /\ extractBtn' = [extractBtn EXCEPT !.disabled = DisabledAfter("no text")]
       ELSE /\ status' = Status("Error: OCR failed", TRUE)
            /\ output' = [kind |-> "error", texts |-> <<>>]
            /\ processedOutput' = ProcessingFailed
            /\ copyBtn' = copyBtn
            /\ orch' = [orch EXCEPT ![k].pc = "done", ![k].outcome = "error",
                                    ![k].errors = {<<"OCR.Space", "processed">>}]
            /\ extractBtn' = [extractBtn EXCEPT !.disabled = DisabledAfter("error")]
    /\ UNCHANGED <<pipeCopy, currentFile, originalBlob, hfi, uploads, preview,
                   previewToggleBtn, clipboard, copyRun, plateVars, textVars, gvVars,
                   preVars, renderVars>>

\* clearBtn is clicked: clearAll of the first copy
clearAllFirst ==
    /\ pipeCopy = "first"
    /\ currentFile' = NoFile
    /\ output' = [kind |-> "placeholder", texts |-> <<>>]
    /\ processedOutput' = WaitingText
    /\ preview' = NoFile
    /\ status' = Status("", FALSE)
    /\ copyBtn' = FALSE
    /\ UNCHANGED <<pipeCopy, originalBlob, hfi, orch, uploads, previewToggleBtn,
                   clipboard, copyRun, extractBtn, plateVars, textVars, gvVars, preVars,
                   renderVars>>

(***************************************************************************)
(* Specifications                                                          *)
(***************************************************************************)
\* findKAVehicleInTokens on every token array of TokenArrays
InitPlate ==
    /\ tokens \in TokenArrays /\ found = NoMatch /\ platePc = "input"
    /\ TextIdle /\ GvIdle /\ PreIdle /\ PipeIdle /\ RenderIdle

NextPlate == FindPlateInTokens

SpecPlate == InitPlate /\ [][NextPlate]_vars

\* processText on every raw text of RawTexts
InitText ==
    /\ rawText \in RawTexts /\ result = NoResult /\ textPc = "input"
    /\ PlateIdle /\ GvIdle /\ PreIdle /\ PipeIdle /\ RenderIdle

NextText == processText

SpecText == InitText /\ [][NextText]_vars

\* generateVariants on every token of VariantTokens and limit of VariantLimits
InitVariants ==
    /\ gvToken \in VariantTokens /\ gvLimit \in VariantLimits
    /\ gvResult = <<>> /\ gvPc = "input"
    /\ PlateIdle /\ TextIdle /\ PreIdle /\ PipeIdle /\ RenderIdle

NextVariants == GenerateVariants

SpecVariants == InitVariants /\ [][NextVariants]_vars

\* preprocessForOCR on every image of ImageSizes, the encoder reporting any
\* of EncodedSizes at each attempt
InitPreprocess == PreLoaded /\ PlateIdle /\ TextIdle /\ GvIdle /\ PipeIdle /\ RenderIdle

NextPreprocess ==
    \/ StartPreprocess
    \/ \E size \in EncodedSizes : Attempt(size)
    \/ FinishPreprocess

SpecPreprocess == InitPreprocess /\ [][NextPreprocess]_vars

\* both copies of preprocessForOCR.  Every await of the loop is on a render
\* or an encoder callback that the browser delivers, so a step that can be
\* taken is taken.
InitControllers ==
    (PreLoaded \/ PreLoadedPart2) /\ PlateIdle /\ TextIdle /\ GvIdle /\ PipeIdle /\ RenderIdle

\* the loops branch on blob.size <= MAX_FILE_SIZE only: a size under the
\* limit, the limit itself and a size over it
ControllerSizes == {524288, 1048576, 1048577}

NextControllers ==
    \/ StartPreprocess
    \/ \E size \in ControllerSizes : Attempt(size)
    \/ FinishPreprocess
    \/ StartPreprocessPart2
    \/ \E size \in ControllerSizes : AttemptPart2(size)
    \/ FinishPreprocessPart2

SpecControllers ==
    InitControllers /\ [][NextControllers]_vars /\ WF_vars(NextControllers)

\* two calls of handleFileInput for different files of PickedFiles, in every
\* interleaving of their awaits, timers and recognizer answers
InitPipeline == PipeIdle /\ PlateIdle /\ TextIdle /\ GvIdle /\ PreIdle /\ RenderIdle

NextPipeline ==
    \E i \in Invocations :
        \/ \E file \in PickedFiles : handleFileInput(i, file)
        \/ \E size \in PreprocessedSizes : PreprocessReturns(i, size)
        \/ PreprocessThrows(i)
        \/ \E size \in LightSizes : LightReturns(i, ProcessedBlob(hfi[i].file, size))
        \/ LightReturns(i, NoFile)
        \/ LightThrows(i)
        \/ orchestrateOCRandExtraction(i)
        \/ \E outcome \in RecognizerOutcomes : SpaceResponds(i, outcome)
        \/ \E outcome \in RecognizerOutcomes : TesseractResponds(i, outcome)

SpecPipeline == InitPipeline /\ [][NextPipeline]_vars

\* handleFileInput of script.js and of part_002 up to the timer: two calls
\* for different files, the preprocessing returning any of the sizes
InitFileInput ==
    /\ (PipeStart("script.js") \/ PipeStart("part_002"))
    /\ PlateIdle /\ TextIdle /\ GvIdle /\ PreIdle /\ RenderIdle

NextFileInput ==
    \E i \in Invocations :
        \/ \E file \in PickedFiles : handleFileInput(i, file)
        \/ \E file \in PickedFiles : handleFileInputPart2(i, file)
        \/ \E size \in PreprocessedSizes : PreprocessReturns(i, size)
        \/ PreprocessThrows(i)
        \/ \E size \in LightSizes \cup PreprocessedSizes :
              LightReturns(i, ProcessedBlob(hfi[i].file, size))
        \/ LightReturns(i, NoFile)
        \/ \E size \in LightSizes \cup PreprocessedSizes :
              LightReturnsPart2(i, ProcessedBlob(hfi[i].file, size))
        \/ LightThrows(i)

SpecFileInput == InitFileInput /\ [][NextFileInput]_vars

\* the files of a session with the clear and copy buttons
SessionFiles ==
    {File("big.jpg", MediaType("image", "jpeg"), 2097152, TRUE),
     File("small.gif", MediaType("image", "gif"), 102400, TRUE)}

\* script.js with its buttons: two calls of handleFileInput, their runs, and
\* clicks on clearBtn and copyBtn at any time
InitSession == InitPipeline

NextSession ==
    \/ \E i \in Invocations :
          \/ \E file \in SessionFiles : handleFileInput(i, file)
          \/ \E size \in PreprocessedSizes : PreprocessReturns(i, size)
          \/ PreprocessThrows(i)
          \/ orchestrateOCRandExtraction(i)
          \/ \E outcome \in RecognizerOutcomes : SpaceResponds(i, outcome)
          \/ \E outcome \in RecognizerOutcomes : TesseractResponds(i, outcome)
    \/ clearAll
    \/ copyBtnClick
    \/ \E ok \in BOOLEAN : CopyResolves(ok)
    \/ CopyTimerFires

SpecSession == InitSession /\ [][NextSession]_vars

\* the first copy: two calls of handleFile, two runs of extractText, and
\* clicks on clearBtn and copyBtn at any time
InitFirstCopy ==
    /\ PipeStart("first")
    /\ PlateIdle /\ TextIdle /\ GvIdle /\ PreIdle /\ RenderIdle

NextFirstCopy ==
    \/ \E i \in Invocations :
          \/ \E file \in PickedFiles : handleFile(i, file)
          \/ PreviewLoads(i)
          \/ PreviewFails(i)
          \/ extractText(i)
          \/ \E outcome \in RecognizerOutcomes : OcrResponds(i, outcome)
    \/ clearAllFirst
    \/ copyBtnClick
    \/ \E ok \in BOOLEAN : CopyResolves(ok)
    \/ CopyTimerFires

SpecFirstCopy == InitFirstCopy /\ [][NextFirstCopy]_vars

\* renderToCanvas on canvases of up to MaxSide by MaxSide pixels, with and
\* without opts.sharpen
InitRender ==
    /\ canvasW \in 1..MaxSide /\ canvasH \in 1..MaxSide
    /\ optsSharpen \in BOOLEAN
    /\ \E n \in 1..MaxPattern : imageData = DrawnPixels(canvasW, canvasH, n)
    /\ canvasData = imageData
    /\ renderPc = "input"
    /\ PlateIdle /\ TextIdle /\ GvIdle /\ PreIdle /\ PipeIdle

NextRender == renderToCanvas

SpecRender == InitRender /\ [][NextRender]_vars

(***************************************************************************)
(* Properties of the plate run                                             *)
(***************************************************************************)
PlateDone == platePc = "done"

\* the scan indices of the token array; no case returns at an index before i
ScanIndices == 0..(Len(tokens) - 1)
NoMatchBefore(i) == \A k \in 0..(i - 1) : ~ScanAt(tokens, k).found

\* s with the characters at the 0-based positions in S replaced through
\* CONFUSION_MAP
Substitute(s, S) ==
    [p \in 1..Len(s) |-> IF (p - 1) \in S THEN CONFUSION_MAP[s[p]] ELSE s[p]]

ConfusablePositions(s) == {p \in 0..(Len(s) - 1) : Confusable(s[p + 1])}

\* the first n confusable positions of s, left to right
FirstConfusable(s, n) ==
    {p \in ConfusablePositions(s) :
        Cardinality({q \in ConfusablePositions(s) : q < p}) < n}

\* the n-th confusable position of s, as a set (empty when s has fewer)
NthConfusable(s, n) ==
    {p \in ConfusablePositions(s) :
        Cardinality({q \in ConfusablePositions(s) : q < p}) = n - 1}

\* C2: findKAVehicleInTokens(["KAO5","AB1234"]) returns a match whose plate is
\* "KA05AB1234": the misread district token KAO5 is joined, through its
\* variant KA05, with the following series+number token.
C2_MisreadDistrictJoined ==
    (PlateDone /\ tokens = <<tKAO5, tAB1234>>)
        => (found.found /\ found.plate = tKA05AB1234)

\* C3 as stated: when the token at index i, or any string obtained from it by
\* substituting any subset of its confusable positions, matches the plate
\* grammar and no earlier index yields a match, the result is the match at
\* index i with indices [i].
C3_AnySubstitutionAccepted ==
    PlateDone =>
        \A i \in ScanIndices :
            ( /\ \E S \in SUBSET ConfusablePositions(Tok(tokens, i)) :
                     KA_VEHICLE_PATTERN(Substitute(Tok(tokens, i), S))
              /\ NoMatchBefore(i) )
            => (found.found /\ found.indices = <<i>>)

\* the substitution sets of the first twenty masks: any subset of the first
\* four confusable positions, or the fifth with any subset of the first two
FirstTwentySubstitutions(s) ==
    SUBSET FirstConfusable(s, 4)
        \cup {NthConfusable(s, 5) \cup S : S \in SUBSET FirstConfusable(s, 2)}

\* C3 amended: when the token at index i, or a string obtained from it by
\* substituting at any subset of its first four confusable positions (or at
\* the fifth together with any subset of the first two), matches the plate
\* grammar and no earlier index yields a match, the result is the match at
\* index i with indices [i].
C3_FirstTwentyMasksAccepted ==
    PlateDone =>
        \A i \in ScanIndices :
            ( /\ \E S \in FirstTwentySubstitutions(Tok(tokens, i)) :
                     KA_VEHICLE_PATTERN(Substitute(Tok(tokens, i), S))
              /\ NoMatchBefore(i) )
            => (found.found /\ found.indices = <<i>>)

\* a misread whole plate, after a token that yields no match, is accepted
\* through a variant at its own index
C3_Witness ==
    /\ PlateDone
    /\ Len(tokens) = 2
    /\ Tok(tokens, 1) = tKAO5AB1234
    /\ ~KA_VEHICLE_PATTERN(Tok(tokens, 1))
    /\ NoMatchBefore(1)
    /\ found.indices = <<1>>

\* C4: every non-null result carries a plate that matches the anchored grammar
\* KA + 2 digits + 1-2 letters + 4 digits, on every return path.
C4_PlateMatchesGrammar ==
    (PlateDone /\ found.found) => KA_VEHICLE_PATTERN(found.plate)

\* a result of the direct path whose plate is a variant of the token, not the
\* token
C4_Witness ==
    /\ PlateDone
    /\ found.found
    /\ Len(found.indices) = 1
    /\ found.plate # Tok(tokens, found.indices[1])

\* the four tokens at i..i+3 have the shapes "KA", 2 digits, 1-2 letters,
\* 4 digits
FourFragmentsAt(i) ==
    /\ i + 3 < Len(tokens)
    /\ ReKA(Tok(tokens, i))
    /\ ReTwoDigits(Tok(tokens, i + 1))
    /\ ReLetters(Tok(tokens, i + 2))
    /\ ReFourDigits(Tok(tokens, i + 3))

\* C5: four consecutive tokens "KA", 2 digits, 1-2 letters, 4 digits at
\* i..i+3, with no match at an index before i, give plate = their
\* concatenation and indices [i, i+1, i+2, i+3]; ["KA","51","AK","4247"] gives
\* "KA51AK4247" with [0,1,2,3].
C5_FourFragmentsAssembled ==
    PlateDone =>
        /\ \A i \in ScanIndices :
              (FourFragmentsAt(i) /\ NoMatchBefore(i))
              => found = PlateMatch(Tok(tokens, i) \o Tok(tokens, i + 1)
                                       \o Tok(tokens, i + 2) \o Tok(tokens, i + 3),
                                    <<i, i + 1, i + 2, i + 3>>)
        /\ tokens = <<tKA, t51, tAK, t4247>>
              => found = PlateMatch(tKA51AK4247, <<0, 1, 2, 3>>)

\* the four fragments assembled after a leading noise token
C5_Witness ==
    /\ PlateDone
    /\ FourFragmentsAt(1)
    /\ NoMatchBefore(1)
    /\ found.indices = <<1, 2, 3, 4>>

StartsWithKA(s) == Len(s) >= 2 /\ s[1] = "K" /\ s[2] = "A"

\* C6: with no token beginning with "KA" the result is null, whatever the
\* confusion substitutions; every non-null result's first source token
\* begins with "KA".
C6_RootedInKA ==
    PlateDone =>
        /\ (\A i \in ScanIndices : ~StartsWithKA(Tok(tokens, i))) => ~found.found
        /\ found.found => StartsWithKA(Tok(tokens, found.indices[1]))

\* plate fragments with confusable characters but no "KA" token: null
C6_Witness ==
    /\ PlateDone
    /\ Len(tokens) >= 3
    /\ \A i \in ScanIndices : ~StartsWithKA(Tok(tokens, i))
    /\ \E i \in ScanIndices : ReSeriesNumber(Tok(tokens, i))
    /\ \E i \in ScanIndices : ConfusablePositions(Tok(tokens, i)) # {}
    /\ ~found.found

\* the continuation indices j of the look-ahead from scan index i at which the
\* joined token or the split pair validates
ValidContinuations(district, head, from, hi) ==
    {j \in from..hi : LookAheadAt(tokens, district, head, j, hi).found}

\* C7: the result is the one found at the smallest scan index at which any
\* case validates; there the direct match is preferred to an assembly, and a
\* look-ahead returns its smallest validating continuation index, the joined
\* token before the split pair.  A later plate never displaces it.
C7_FirstValidatedWins ==
    PlateDone =>
        LET validated == {i \in ScanIndices : ScanAt(tokens, i).found}
        IN
        IF validated = {} THEN ~found.found
        ELSE LET m == CHOOSE i \in validated : \A k \in validated : i <= k
                 t == Tok(tokens, m)
                 hi4 == Min(m + 4, Len(tokens) - 1)
                 hi5 == Min(m + 5, Len(tokens) - 1)
             IN  /\ found = ScanAt(tokens, m)
                 /\ DirectCase(tokens, m).found => found.indices = <<m>>
                 /\ (~DirectCase(tokens, m).found /\ ReDistrict(t))
                       => \A j \in ValidContinuations(t, <<m>>, m + 1, hi4) :
                             /\ found.indices[1] = m
                             /\ found.indices[2] <= j
                             /\ (found.indices[2] = j /\ ReSeriesNumber(Tok(tokens, j)))
                                   => found.indices = <<m, j>>
                 /\ (~DirectCase(tokens, m).found /\ ReKA(t)
                        /\ m + 1 < Len(tokens) /\ ReTwoDigits(Tok(tokens, m + 1)))
                       => \A j \in ValidContinuations(tKA \o Tok(tokens, m + 1),
                                                      <<m, m + 1>>, m + 2, hi5) :
                             /\ found.indices[1] = m
                             /\ found.indices[3] <= j
                             /\ (found.indices[3] = j /\ ReSeriesNumber(Tok(tokens, j)))
                                   => found.indices = <<m, m + 1, j>>

\* an assembly validates at scan index 0 and a whole (misread) plate stands at
\* a later index: the assembly is returned
C7_Witness ==
    /\ PlateDone
    /\ \E k \in ScanIndices : k > 0 /\ DirectCase(tokens, k).found
    /\ ScanAt(tokens, 0).found
    /\ found = ScanAt(tokens, 0)
    /\ Len(found.indices) >= 2

\* the distance between the first and the last source token of the result
IndexSpan ==
    LET S == {found.indices[k] : k \in 1..Len(found.indices)}
    IN  (CHOOSE a \in S : \A b \in S : a >= b) - (CHOOSE a \in S : \A b \in S : a <= b)

FirstSourceToken == Tok(tokens, found.indices[1])

\* C22: the source tokens of a result lie inside the look-ahead window: they
\* span at most 4 positions when the first is "KA" + 2 digits, at most 5 when
\* the first is the bare "KA" (its 2-digit token at the very next index), and
\* exactly 1 when the first is "KA" + 2 digits + 1-2 letters; the 4-digit token
\* of a split tail is inside the window too.
C22_WithinWindow ==
    (PlateDone /\ found.found) =>
        /\ ReDistrict(FirstSourceToken) => IndexSpan <= 4
        /\ ReKA(FirstSourceToken) =>
              /\ IndexSpan <= 5
              /\ found.indices[2] = found.indices[1] + 1
              /\ ReTwoDigits(Tok(tokens, found.indices[2]))
        /\ ReDistrictLetters(FirstSourceToken) => IndexSpan = 1

\* "KA51", three noise tokens and "AB1234": the tail at the last index of the
\* window is taken
C22_Witness ==
    /\ PlateDone
    /\ tokens = <<tKA51>> \o Noise(3) \o <<tAB1234>>
    /\ found.found
    /\ found.indices = <<0, 4>>

\* the tokens at the positions ix[k..], joined in that order
RECURSIVE JoinTokens(_, _, _)
JoinTokens(toks, ix, k) ==
    IF k > Len(ix) THEN <<>> ELSE Tok(toks, ix[k]) \o JoinTokens(toks, ix, k + 1)

\* C23: in every result indices is a strictly increasing list of 1 to 4
\* positions of the token array, and plate has the length of the tokens at
\* those positions joined in order and differs from them only where a
\* character is replaced by its CONFUSION_MAP partner.
C23_PlateFromSourceTokens ==
    (PlateDone /\ found.found) =>
        LET ix == found.indices
            source == JoinTokens(tokens, ix, 1)
        IN  /\ Len(ix) \in 1..4
            /\ \A k \in 1..Len(ix) : ix[k] \in ScanIndices
            /\ \A k \in 1..(Len(ix) - 1) : ix[k] < ix[k + 1]
            /\ Len(found.plate) = Len(source)
            /\ \A p \in 1..Len(source) :
                  \/ found.plate[p] = source[p]
                  \/ /\ Confusable(source[p])
                     /\ found.plate[p] = CONFUSION_MAP[source[p]]

\* "KA51" and the misread "AK424Z": the plate is the join with Z read as 2
C23_Witness ==
    /\ PlateDone
    /\ found.found
    /\ found.indices = <<0, 1>>
    /\ tokens = <<tKA51, tAK424Z>>
    /\ found.plate # JoinTokens(tokens, found.indices, 1)
    /\ found.plate[10] = CONFUSION_MAP["Z"]

\* C27: if the tokens at the positions of indices, joined, match
\* ^KA\d{2}[A-Z]{1,2}\d{4}$ as they are, plate is exactly that join: a
\* confusion variant is returned only when the unmodified token or assembly
\* does not satisfy the grammar.
C27_UnmodifiedPreferred ==
    (PlateDone /\ found.found) =>
        LET source == JoinTokens(tokens, found.indices, 1)
        IN  /\ KA_VEHICLE_PATTERN(source) => found.plate = source
            /\ found.plate # source => ~KA_VEHICLE_PATTERN(source)

\* "KA", "51", "AK", "4247": the join is a plate with three confusable
\* characters, and it is returned as read
C27_Witness ==
    /\ PlateDone
    /\ found.found
    /\ tokens = <<tKA, t51, tAK, t4247>>
    /\ Len(found.indices) = 4
    /\ Len(ConfusableIndices(JoinTokens(tokens, found.indices, 1), 0)) >= 2
    /\ found.plate = tKA51AK4247

\* the body of the scan loop without the two cases that look backward
ForwardScanAt(toks, i) ==
    LET direct == DirectCase(toks, i)
        district == DistrictCase(toks, i)
        bareKA == BareKACase(toks, i)
    IN  IF direct.found THEN direct
        ELSE IF district.found THEN district
        ELSE IF bareKA.found THEN bareKA
        ELSE DistrictLettersCase(toks, i)

RECURSIVE ForwardScanLoop(_, _)
ForwardScanLoop(toks, i) ==
    IF i >= Len(toks) THEN NoMatch
    ELSE LET r == ForwardScanAt(toks, i)
         IN  IF r.found THEN r ELSE ForwardScanLoop(toks, i + 1)

\* C28: the cases that look backward (the token is 1-2 letters + 4 digits, or
\* 4 digits, joined to the tokens before it) never produce the result: the
\* scan returns what it returns without them, since an assembly they build
\* has been returned at an earlier index by the look-ahead; so indices[0] is
\* the scan index at which the match was found.
C28_BackwardCasesNeverProduce ==
    PlateDone =>
        /\ found = ForwardScanLoop(tokens, 0)
        /\ \A i \in ScanIndices :
              (SeriesNumberCase(tokens, i).found \/ FourDigitsCase(tokens, i).found)
                  => \E k \in 0..(i - 1) : ForwardScanAt(tokens, k).found
        /\ found.found =>
              /\ ScanAt(tokens, found.indices[1]).found
              /\ NoMatchBefore(found.indices[1])

\* "KA51", "AK", "4247": at the index of "4247" the backward case builds the
\* plate, which the look-ahead has returned at index 0
C28_Witness ==
    /\ PlateDone
    /\ tokens = <<tKA51, tAK, t4247>>
    /\ FourDigitsCase(tokens, 2).found
    /\ found = DistrictCase(tokens, 0)
    /\ found.plate = FourDigitsCase(tokens, 2).plate
    /\ found.indices[1] = 0

(***************************************************************************)
(* Properties of the text run                                              *)
(***************************************************************************)
IsAsciiAlnum(c) == c \in UpperLetters \cup LowerLetters \cup Digits

\* where the maximal runs of ASCII letters and digits of s start
RunStarts(s) ==
    {p \in 1..Len(s) : IsAsciiAlnum(s[p]) /\ (p = 1 \/ ~IsAsciiAlnum(s[p - 1]))}

\* where the run that starts at p ends
RunEnd(s, p) ==
    CHOOSE q \in p..Len(s) :
        /\ \A r \in p..q : IsAsciiAlnum(s[r])
        /\ q = Len(s) \/ ~IsAsciiAlnum(s[q + 1])

\* the start of the k-th run, in text order
KthRunStart(s, k) ==
    CHOOSE p \in RunStarts(s) : Cardinality({q \in RunStarts(s) : q < p}) = k - 1

\* C8: the tokens of processText are the maximal runs of ASCII letters and
\* digits of the raw text, uppercased, in text order, none empty; line breaks
\* and every other character separate; "KA-51  AK\n4247" gives
\* ["KA","51","AK","4247"].
C8_TokensAreMaximalRuns ==
    textPc = "done" =>
        /\ Len(tokens) = Cardinality(RunStarts(rawText))
        /\ \A k \in 1..Len(tokens) :
              LET p == KthRunStart(rawText, k)
              IN  /\ tokens[k] # <<>>
                  /\ tokens[k] = MapChars(SubSeq(rawText, p, RunEnd(rawText, p)),
                                          ToUpperChar)
        /\ rawText = ExampleText => tokens = <<tKA, t51, tAK, t4247>>

\* the text of the example, tokenized
C8_Witness ==
    /\ textPc = "done"
    /\ rawText = ExampleText
    /\ tokens = <<tKA, t51, tAK, t4247>>

(***************************************************************************)
(* Properties of the variants run                                          *)
(***************************************************************************)
VariantsDone == gvPc = "done"

\* k: the number of characters of the token that occur in CONFUSION_MAP
ConfusableCount == Cardinality(ConfusablePositions(gvToken))

NoDuplicates(seq) == \A a, b \in 1..Len(seq) : seq[a] = seq[b] => a = b

\* C9: for a token with k <= 10 confusable characters and a limit K >= 1 the
\* list is duplicate-free, starts with the token and has at most min(2^k, K)
\* elements, each of the token's length and differing from it only at
\* confusable positions.
C9_BoundedVariants ==
    (VariantsDone /\ ConfusableCount <= 10 /\ gvLimit >= 1) =>
        /\ NoDuplicates(gvResult)
        /\ Len(gvResult) >= 1
        /\ gvResult[1] = gvToken
        /\ Len(gvResult) <= Min(2 ^ ConfusableCount, gvLimit)
        /\ \A k \in 1..Len(gvResult) :
              /\ Len(gvResult[k]) = Len(gvToken)
              /\ \A p \in 1..Len(gvToken) :
                    gvResult[k][p] # gvToken[p]
                        => /\ Confusable(gvToken[p])
                           /\ gvResult[k][p] = CONFUSION_MAP[gvToken[p]]

\* a token with 10 confusable characters: the limit caps the list
C9_Witness ==
    /\ VariantsDone
    /\ ConfusableCount = 10
    /\ gvLimit = 30
    /\ Len(gvResult) = 30

\* C10: for every token, also with more than 10 and with 31 or more
\* confusable characters, and every limit K >= 1 the list is non-empty,
\* contains the unmodified token, has at most K elements, and at most 2^10
\* masks are enumerated.
C10_AlwaysContainsToken ==
    (VariantsDone /\ gvLimit >= 1) =>
        /\ Len(gvResult) >= 1
        /\ SeqContains(gvResult, gvToken)
        /\ Len(gvResult) <= gvLimit
        /\ MaxComb(ConfusableCount) <= 2 ^ 10

(***************************************************************************)
(* Properties of the compression controller                                *)
(***************************************************************************)
\* C1: the returned blob exceeds MAX_FILE_SIZE only if every attempt's blob
\* did: when the loop stopped on a blob within the limit, the blob returned
\* (bestBlob || blob) is within the limit.
C1_ReturnedWithinLimit ==
    (prePc = "done" /\ \E k \in 1..Len(attemptLog) : attemptLog[k].size <= MAX_FILE_SIZE)
        => finalBlob.size <= MAX_FILE_SIZE

\* the number of attempts the running copy allows
AttemptLimit == IF preCopy = "script.js" THEN maxAttempts ELSE PART2_ATTEMPTS

AttemptIndices == 1..Len(attemptLog)

\* C11: preprocessForOCR terminates, after at most 8 render+encode attempts in
\* script.js and 10 in part_002, for every image and every sequence of encoder
\* sizes, also when no attempt meets the byte budget.
C11_TerminatesWithinN ==
    [](Len(attemptLog) <= AttemptLimit) /\ <>(prePc = "done")

\* script.js has made all its attempts, none within the limit, and returned
C11_Witness ==
    /\ prePc = "done"
    /\ preCopy = "script.js"
    /\ Len(attemptLog) = maxAttempts
    /\ \A k \in AttemptIndices : attemptLog[k].size > MAX_FILE_SIZE

\* C12: when the first attempt's blob is within MAX_FILE_SIZE there is no
\* second render/encode, and the blob returned is that first blob.
C12_FirstAttemptStops ==
    (Len(attemptLog) >= 1 /\ attemptLog[1].size <= MAX_FILE_SIZE) =>
        /\ Len(attemptLog) = 1
        /\ prePc \in {"exit", "done"}
        /\ prePc = "done" => finalBlob = Blob(1, attemptLog[1].size)

\* a first blob of exactly MAX_FILE_SIZE bytes is returned by script.js
C12_Witness ==
    /\ prePc = "done"
    /\ preCopy = "script.js"
    /\ attemptLog[1].size = MAX_FILE_SIZE
    /\ finalBlob = Blob(1, MAX_FILE_SIZE)
    /\ bestBlob = finalBlob

\* C13: in script.js every attempt renders a short side of at least
\* MIN_DIMENSION unless the source's short side was already below it, at the
\* starting scale and after every reduction of the scale.
C13_ShortSideFloor ==
    Min(origW, origH) >= MIN_DIMENSION =>
        /\ prePc # "start" => Min(targetW, targetH) >= MIN_DIMENSION
        /\ \A k \in AttemptIndices :
              Min(attemptLog[k].w, attemptLog[k].h) >= MIN_DIMENSION

\* the scale was reduced twice and the short side is still at the floor or
\* above it
C13_Witness ==
    /\ prePc = "done"
    /\ Len(attemptLog) = maxAttempts
    /\ Min(origW, origH) >= MIN_DIMENSION
    /\ attemptLog[8].w < attemptLog[7].w
    /\ attemptLog[7].w < attemptLog[6].w
    /\ Min(attemptLog[8].w, attemptLog[8].h) >= MIN_DIMENSION

\* C20: in script.js the scale of every attempt is at most
\* min(MAX_DIMENSION/origW, MAX_DIMENSION/origH, 1): no attempt renders a long
\* side above MAX_DIMENSION and none enlarges the image.
C20_ScaleWithinCap ==
    /\ prePc # "start" =>
          /\ scale.n <= scale.d
          /\ scale.n * Max(origW, origH) <= MAX_DIMENSION * scale.d
    /\ \A k \in AttemptIndices :
          /\ Max(attemptLog[k].w, attemptLog[k].h) <= MAX_DIMENSION
          /\ attemptLog[k].w <= origW
          /\ attemptLog[k].h <= origH

\* C21: once the scale cannot be reduced further and the last-resort quality
\* of 0.5 has been applied, script.js makes at most one more attempt and then
\* stops: at most one attempt is rendered at quality 0.5, and no two attempts
\* have the same (targetW, targetH, quality).
C21_StopsAfterLastResort ==
    /\ Cardinality({k \in AttemptIndices : attemptLog[k].q = 50}) <= 1
    /\ \A j, k \in AttemptIndices :
          j < k => <<attemptLog[j].w, attemptLog[j].h, attemptLog[j].q>>
                      # <<attemptLog[k].w, attemptLog[k].h, attemptLog[k].q>>

(***************************************************************************)
(* Properties of the filter pipeline                                       *)
(***************************************************************************)
\* the position of byte ch of pixel (x, y)
ByteAt(x, y, ch) == (y * canvasW + x) * 4 + ch

\* 5*c - up - down - left - right on the pixels read off the canvas
SharpSum(x, y, ch) ==
    5 * imageData[ByteAt(x, y, ch)]
        - imageData[ByteAt(x, y - 1, ch)] - imageData[ByteAt(x, y + 1, ch)]
        - imageData[ByteAt(x - 1, y, ch)] - imageData[ByteAt(x + 1, y, ch)]

Interior(x, y) == 1 <= x /\ x <= canvasW - 2 /\ 1 <= y /\ y <= canvasH - 2

\* C24: with opts.sharpen set, every colour byte of an interior pixel becomes
\* clamp(5*c - up - down - left - right, 0, 255) of the pixels as they were
\* before the step; every alpha byte and every pixel of the outermost rows
\* and columns keeps its value; a canvas narrower or lower than 3 pixels is
\* left as it was.
C24_SharpenKernel ==
    (renderPc = "done" /\ optsSharpen) =>
        /\ DOMAIN canvasData = DOMAIN imageData
        /\ \A x \in 0..(canvasW - 1), y \in 0..(canvasH - 1) :
              /\ canvasData[ByteAt(x, y, 3)] = imageData[ByteAt(x, y, 3)]
              /\ \A ch \in 0..2 :
                    canvasData[ByteAt(x, y, ch)] =
                        IF Interior(x, y) THEN Clamp(SharpSum(x, y, ch))
                        ELSE imageData[ByteAt(x, y, ch)]
        /\ (canvasW < 3 \/ canvasH < 3) => canvasData = imageData

\* a canvas with interior pixels side by side, one byte clamped at 255 and
\* one at 0
C24_Witness ==
    /\ renderPc = "done"
    /\ optsSharpen
    /\ canvasW >= 4 /\ canvasH >= 3
    /\ \E x \in 1..(canvasW - 2), y \in 1..(canvasH - 2), ch \in 0..2 :
          SharpSum(x, y, ch) > 255 /\ canvasData[ByteAt(x, y, ch)] = 255
    /\ \E x \in 1..(canvasW - 2), y \in 1..(canvasH - 2), ch \in 0..2 :
          SharpSum(x, y, ch) < 0 /\ canvasData[ByteAt(x, y, ch)] = 0
    /\ \E x \in 1..(canvasW - 2), y \in 1..(canvasH - 2), ch \in 0..2 :
          /\ canvasData[ByteAt(x, y, ch)] \in 1..254
          /\ canvasData[ByteAt(x, y, ch)] # imageData[ByteAt(x, y, ch)]

(***************************************************************************)
(* Properties of the file pipeline                                         *)
(***************************************************************************)
\* the calls of handleFileInput that have been made
Called == {i \in Invocations : hfi[i].pc # "idle"}

\* the runs of orchestrateOCRandExtraction that have called performOCR_both
Recognizing == {i \in Invocations : orch[i].pc \in {"space", "tesseract"}
                                       \/ orch[i].outcome \in {"no text", "text", "error"}}

\* C14: every blob posted to OCR.Space has at most MAX_FILE_SIZE bytes,
\* whatever the size of the input file.
C14_UploadsWithinLimit ==
    \A b \in uploads : b.size <= MAX_FILE_SIZE

AllowList ==
    {MediaType("image", "jpeg"), MediaType("image", "jpg"),
     MediaType("image", "png"), MediaType("image", "gif")}

\* C15: a file is accepted (becomes currentFile, goes on to preprocessing and
\* OCR) only if its declared type is image/jpeg, image/jpg, image/png or
\* image/gif; a file of any other type is rejected and leaves currentFile
\* unchanged.
C15_OnlyAllowListAccepted ==
    /\ currentFile # NoFile => currentFile.file.type \in AllowList
    /\ \A i \in Called : hfi[i].file.type \notin AllowList => hfi[i].pc = "rejected"

\* C16: a zero-length file is rejected: currentFile is never a file of size 0
\* and no recognizer call is started for it.
C16_ZeroLengthRejected ==
    /\ currentFile # NoFile => currentFile.size > 0
    /\ \A b \in uploads : b.size > 0
    /\ \A i \in Called : hfi[i].file.size = 0 => orch[i].pc = "idle"

\* every recognizer call of run i failed: OCR.Space and the Tesseract
\* fallback, for the processed and for the original image
AllCallsFailed(i) ==
    orch[i].errors = {"OCR.Space", "Tesseract"} \X {"processed", "original"}

\* C17: when every recognizer call of an orchestration fails, the
\* orchestration ends in the error outcome that carries the error message,
\* not in the 'No text detected' outcome.
C17_FailureSurfaced ==
    \A i \in Invocations :
        (orch[i].pc = "done" /\ AllCallsFailed(i)) => orch[i].outcome = "error"

\* C18: when decoding or encoding fails during preprocessing the pipeline
\* stops for that input: currentFile is not set to the file and no recognizer
\* call is scheduled for it.
C18_DecodeFailureStops ==
    \A i \in Invocations :
        hfi[i].preprocess = "threw" =>
            /\ currentFile # FileBlob(hfi[i].file)
            /\ orch[i].pc = "idle"

\* C19: overlapping calls of handleFileInput for two files do not interfere:
\* whenever a run calls performOCR_both(currentFile, originalBlob), both
\* blobs derive from the file of the call that scheduled the run, and its
\* result is read off that file only.
C19_CallsIndependent ==
    \A i \in Recognizing :
        /\ orch[i].processedBlob.file = hfi[i].file
        /\ orch[i].originalBlob.file = hfi[i].file
        /\ orch[i].processedText # NoText => orch[i].processedText.name = hfi[i].file.name
        /\ orch[i].originalText # NoText => orch[i].originalText.name = hfi[i].file.name

\* the call i of handleFileInput stores its file in this step without the
\* full preprocessing: it comes to its end from its start or from the await
\* of the light preprocessing
StoresSmallFile(i) ==
    /\ hfi[i].pc \in {"idle", "light"}
    /\ hfi'[i].pc \in {"done", "aborted"}

\* C25: for an input file of at most MAX_FILE_SIZE bytes, the file that
\* handleFileInput stores in currentFile has at most MAX_FILE_SIZE bytes: it
\* is the lightly preprocessed blob only when that blob passes the size test
\* of the copy (at most 0.9 times the size of the file in script.js, at most
\* MAX_FILE_SIZE in part_002), and the file itself otherwise.
C25_StoredFileWithinLimit ==
    [][\A i \in Invocations :
         (StoresSmallFile(i) /\ hfi'[i].file.size <= MAX_FILE_SIZE) =>
            /\ currentFile'.size <= MAX_FILE_SIZE
            /\ currentFile'.file = hfi'[i].file
            /\ currentFile'.kind \in {"file", "processed"}
            /\ currentFile'.kind = "file" => currentFile' = FileBlob(hfi'[i].file)
            /\ currentFile'.kind = "processed" =>
                  /\ hfi[i].pc = "light"
                  /\ pipeCopy = "script.js" =>
                        10 * currentFile'.size <= 9 * hfi'[i].file.size
                  /\ pipeCopy = "part_002" => currentFile'.size <= MAX_FILE_SIZE]_vars

\* part_002 has taken a light blob that is larger than the file and within
\* the limit
C25_Witness ==
    \E i \in Invocations :
        /\ hfi[i].pc = "done"
        /\ hfi[i].file.size <= MAX_FILE_SIZE
        /\ pipeCopy = "part_002"
        /\ hfi[i].preprocess = "light"
        /\ currentFile.kind = "processed"
        /\ currentFile.file = hfi[i].file
        /\ currentFile.size > hfi[i].file.size

(***************************************************************************)
(* Properties of the first copy                                            *)
(***************************************************************************)
\* the runs of extractText that are between their start and their end
Extracting == {k \in Invocations : orch[k].pc = "space"}

\* C26: in the first copy extractBtn is disabled from the start of an
\* extraction until its end and enabled after every way it can end (a plate
\* found, no plate, no text, an error of the recognizer): the button is
\* disabled exactly while a run of extractText is under way.
C26_DisabledWhileExtracting ==
    pipeCopy = "first" => (extractBtn.disabled <=> Extracting # {})

\* one extraction has ended by the return for no text and a later one by an
\* error of the recognizer, and the button is enabled
C26_Witness ==
    /\ pipeCopy = "first"
    /\ orch[1].outcome = "no text"
    /\ orch[2].outcome = "error"
    /\ ~extractBtn.disabled

(***************************************************************************)
(* Properties of the session                                               *)
(***************************************************************************)
\* the page as clearAll leaves it: no file, no original, the placeholder in
\* the preview and no preview toggle button
Cleared ==
    /\ currentFile = NoFile
    /\ originalBlob = NoFile
    /\ preview = NoFile
    /\ ~previewToggleBtn

\* the user supplies a file in this step
NewFileSupplied == \E i \in Invocations : hfi[i].pc = "idle" /\ hfi'[i].pc # "idle"

\* a run posts a blob to the recognizer in this step
RecognizerCallStarts ==
    \E i \in Invocations : orch[i].pc = "timer" /\ orch'[i].pc = "space"

\* C29: once clearAll has run the page stays cleared until the user
\* supplies a new file: a call of handleFileInput that was awaiting its
\* preprocessing, or whose timer was pending, when clearAll ran neither
\* fills currentFile or the preview again nor starts a recognizer call.
C29_StaysCleared ==
    [][(Cleared /\ ~NewFileSupplied) => (Cleared' /\ ~RecognizerCallStarts)]_vars

\* C30: a click on the copy button writes only a plate to the clipboard:
\* after any sequence of extractions the copy button is hidden or
\* processedOutput holds a valid plate.
C30_CopiesOnlyPlates ==
    pipeCopy = "script.js" =>
        /\ copyBtn => processedOutput = PlateText
        /\ \A text \in clipboard : text = PlateText
====
